---- MODULE Spec2Model ----
(***************************************************************************)
(* StockNewsBotApp: the mock series generator, the keyword NLP functions,  *)
(* the action mapper and the /news_analysis pipeline of backend_app.py     *)
(* (and their copies in pages/SBI.py).                                     *)
(*                                                                         *)
(* Numbers: prices, confidences and percentages are fixed-point, in        *)
(* thousandths (Milli units per 1.0).  round(x, 2) yields hundredths       *)
(* ("cents").  Text is a sequence of one-character strings.                *)
(* np.random is a generator with state rng; every draw returns rng/RandMod *)
(* in [0, 1) and advances the state.                                       *)
(***************************************************************************)
EXTENDS Integers, Sequences, FiniteSets, TLC

VARIABLES
    pc,                   \* which call is in progress / has returned
    rng,                  \* state of the module-level generator np.random
    timeframe,            \* generate_mock_stock_data_local: argument
    num_points_override,  \* generate_mock_stock_data_local: argument, <<>> is None
    current_date,         \* generate_mock_stock_data_local: datetime.now() of the call
    series,               \* generate_mock_stock_data_local: the returned rows
    nlp_impl,             \* perform_ner / analyze_sentiment: "backend" or "SBI" (the page's copy)
    nlp_text,             \* perform_ner / analyze_sentiment: argument text
    nlp_symbol,           \* perform_ner: argument current_stock_symbol
    ner_result,           \* perform_ner: the returned value
    sentiment_result,     \* analyze_sentiment: the returned label
    map_sentiment,        \* map_news_to_action: argument sentiment
    action_data,          \* map_news_to_action: the returned dict
    NEWS_API_KEY,         \* module level: TRUE when the environment sets a key
    query,                \* /news_analysis: request.query
    raw_articles,         \* /news_analysis: what get_financial_news_api returned
    loop_i,               \* /news_analysis: articles processed so far (the loop's i)
    processed_news,       \* /news_analysis: the annotated articles
    latest_trading_signal,\* /news_analysis: the trading signal
    response,             \* /news_analysis: the HTTP answer (status 0: none yet)
    calls,                \* /news_analysis: calls of the three NLP functions so far
    page,                 \* news pipeline: "backend" (POST /news_analysis) or "SBI" (pages/SBI.py)
    provider_reply,       \* get_financial_news_api: what the provider answered to the request
    fetch_ended,          \* get_financial_news_api: "return", "return_none", "HTTPException", "exception"
    requests_sent,        \* get_financial_news_api: requests issued to the provider
    price_page,           \* price fetch: "backend" or "SBI" (the copy that runs)
    price_symbol,         \* price fetch: argument symbol
    exchange,             \* price fetch: argument exchange
    hist_timeframe,       \* get_historical_ohlc_yf: argument timeframe
    yf_request,           \* price fetch: what is asked of yfinance (ticker, period, interval)
    yf_reply,             \* price fetch: what yfinance answered
    live_price,           \* get_live_stock_price_yf: how the call ended and the price
    ohlc,                 \* get_historical_ohlc_yf: how the call ended and the rows
    http_status,          \* /live_price, /historical_data: status of the answer (0: none)
    client_outcome,       \* pages/IRCTC.py: what the POST to /news_analysis came to
    client_result         \* pages/IRCTC.py: get_news_and_analysis_from_backend's result

mockVars == <<timeframe, num_points_override, current_date, series>>
nlpVars == <<nlp_impl, nlp_text, nlp_symbol, ner_result, sentiment_result>>
mapVars == <<map_sentiment, action_data>>
pipeVars == <<NEWS_API_KEY, query, raw_articles, loop_i, processed_news,
              latest_trading_signal, response, calls, page, provider_reply,
              fetch_ended, requests_sent>>
priceVars == <<price_page, price_symbol, exchange, hist_timeframe, yf_request,
               yf_reply, live_price, ohlc, http_status>>
clientVars == <<client_outcome, client_result>>
vars == <<pc, rng, mockVars, nlpVars, mapVars, pipeVars, priceVars, clientVars>>

(***************************************************************************)
(* Bounds of the model.                                                    *)
(***************************************************************************)
RandMod == 256          \* resolution of a draw: rand() is in {0/RandMod .. (RandMod-1)/RandMod}
MaxOverride == 3        \* explicit point counts tried: 0..MaxOverride
MaxNow == 1             \* datetime.now() values tried: 0..MaxNow (seconds)
MaxFrags == 2           \* a text is at most MaxFrags fragments long
MaxArticles == 2        \* the provider returns at most MaxArticles articles
MaxSeed == 3            \* generator states a /news_analysis request starts from: 0..MaxSeed

Milli == 1000

Max(a, b) == IF a >= b THEN a ELSE b
Min(a, b) == IF a <= b THEN a ELSE b

(***************************************************************************)
(* np.random: a linear congruential generator stands for the Mersenne      *)
(* twister.  rand() returns the current state over RandMod.                *)
(***************************************************************************)
NextRng(x) == (5 * x + 5) % RandMod

\* k draws at once: NextRng is affine, so its k-th iterate is x -> A*x + C, and
\* <<A, C>> is found by repeated squaring
RECURSIVE SkipCoeff(_)
SkipCoeff(k) ==
    IF k = 0 THEN <<1, 0>>
    ELSE IF k % 2 = 1
         THEN LET h == SkipCoeff(k - 1)
              IN  <<(5 * h[1]) % RandMod, (5 * h[2] + 5) % RandMod>>
         ELSE LET h == SkipCoeff(k \div 2)
              IN  <<(h[1] * h[1]) % RandMod, (h[2] * (h[1] + 1)) % RandMod>>

Skip(x, k) == LET h == SkipCoeff(k) IN (h[1] * x + h[2]) % RandMod

\* np.random.uniform(low, high) and low + np.random.rand() * (high - low)
Uniform(low, high, x) == low + ((high - low) * x) \div RandMod

\* np.random.randint(low, high): high is exclusive
RandInt(low, high, x) == low + ((high - low) * x) \div RandMod


\* round(v, 2): v and the result in thousandths, the result a whole number of
\* hundredths, ties to even
Round2(v) ==
    LET q == v \div 10
        r == v % 10
    IN  IF r < 5 THEN 10 * q
        ELSE IF r > 5 THEN 10 * (q + 1)
        ELSE IF q % 2 = 0 THEN 10 * q ELSE 10 * (q + 1)

(***************************************************************************)
(* generate_mock_stock_data_local                                          *)
(***************************************************************************)
KnownTimeframes == {"5m", "1d", "1w", "1m", "1y"}
Timeframes == KnownTimeframes \cup {"2y", "1h"}

NoOverride == <<>>
Overrides == {NoOverride} \cup {<<n>> : n \in 0..MaxOverride}

\* the if/elif chain on timeframe: interval_seconds (initialised to 0)
MockInterval(tf) ==
    CASE tf = "5m" -> 5 * 60
      [] tf = "1d" -> 60 * 60
      [] tf = "1w" -> 24 * 60 * 60
      [] tf = "1m" -> 24 * 60 * 60
      [] tf = "1y" -> 24 * 60 * 60
      [] OTHER -> 0

\* the if/elif chain on timeframe: num_points (initialised to 0)
MockDefaultPoints(tf) ==
    CASE tf = "5m" -> 60
      [] tf = "1d" -> 8
      [] tf = "1w" -> 5
      [] tf = "1m" -> 20
      [] tf = "1y" -> 250
      [] OTHER -> 0

\* `if num_points_override: num_points = num_points_override`
\* (None and 0 are both falsy)
MockNumPoints(tf, override) ==
    IF override # NoOverride /\ override[1] # 0
    THEN override[1]
    ELSE MockDefaultPoints(tf)

\* (mutant of MockStartDate: one interval too early)
MockStartDate_OffByOne(now, num_points, interval_seconds) ==
    now - num_points * interval_seconds

\* start_date = current_date - timedelta(seconds=(num_points - 1) * interval_seconds)
MockStartDate(now, num_points, interval_seconds) ==
    now - (num_points - 1) * interval_seconds

\* open_price = last_close * (1 + (np.random.rand() - 0.5) * 0.02), and the same
\* step from open_price to close_price
PerturbedPrice(price, x) == price + (price * (2 * x - RandMod)) \div (100 * RandMod)

\* (mutant of HighPrice: the sign of the widening is wrong)
HighPrice_Narrowed(hi, x) == hi - (hi * x) \div (100 * RandMod)

\* high_price = max(open_price, close_price) * (1 + np.random.rand() * 0.01)
HighPrice(hi, x) == hi + (hi * x) \div (100 * RandMod)

\* low_price = min(open_price, close_price) * (1 - np.random.rand() * 0.01)
LowPrice(lo, x) == lo - (lo * x) \div (100 * RandMod)

\* one iteration of `for i in range(num_points)`: st holds the rows appended so
\* far (data), last_close and the generator state x; the body draws five times
MockStep(st, i, start_date, interval_seconds) ==
    LET x1 == st.x
        x2 == NextRng(x1)
        x3 == NextRng(x2)
        x4 == NextRng(x3)
        x5 == NextRng(x4)
        open_price  == PerturbedPrice(st.last_close, x1)
        close_price == PerturbedPrice(open_price, x2)
        high_price  == HighPrice(Max(open_price, close_price), x3)
        low_price   == LowPrice(Min(open_price, close_price), x4)
    IN  [ data |-> Append(st.data,
                     [ Date   |-> start_date + i * interval_seconds,
                       Open   |-> Round2(open_price),
                       High   |-> Round2(high_price),
                       Low    |-> Round2(low_price),
                       Close  |-> Round2(close_price),
                       Volume |-> RandInt(100000, 5000000, x5) ]),
          last_close |-> close_price,
          x |-> NextRng(x5) ]

\* the loop over i = lo .. hi-1, in order.  The range is halved, and the left
\* half is evaluated (its generator state inspected: always a natural number)
\* before the right half starts, so that the evaluation nests to a depth of
\* log(hi - lo) and not hi - lo
RECURSIVE MockLoop(_, _, _, _, _)
MockLoop(lo, hi, st, start_date, interval_seconds) ==
    IF hi <= lo THEN st
    ELSE IF hi = lo + 1 THEN MockStep(st, lo, start_date, interval_seconds)
    ELSE LET mid  == (lo + hi) \div 2
             left == MockLoop(lo, mid, st, start_date, interval_seconds)
         IN  IF left.x >= 0
             THEN MockLoop(mid, hi, left, start_date, interval_seconds)
             ELSE left

\* the whole call: the final loop state (data is the DataFrame's rows, x the
\* generator state the call leaves behind)
MockRun(tf, override, now, x) ==
    LET last_close       == Uniform(980 * Milli, 1020 * Milli, x)
        interval_seconds == MockInterval(tf)
        num_points       == MockNumPoints(tf, override)
        start_date       == MockStartDate(now, num_points, interval_seconds)
    IN  MockLoop(0, num_points,
                 [data |-> <<>>, last_close |-> last_close, x |-> NextRng(x)],
                 start_date, interval_seconds)

generate_mock_stock_data_local(tf, override, now, x) == MockRun(tf, override, now, x).data

\* pages/SBI.py: the same generator with the starting price drawn from 600..700
SBI_MockRun(tf, override, now, x) ==
    LET last_close       == Uniform(600 * Milli, 700 * Milli, x)
        interval_seconds == MockInterval(tf)
        num_points       == MockNumPoints(tf, override)
        start_date       == MockStartDate(now, num_points, interval_seconds)
    IN  MockLoop(0, num_points,
                 [data |-> <<>>, last_close |-> last_close, x |-> NextRng(x)],
                 start_date, interval_seconds)

(***************************************************************************)
(* Text: str.lower() and the substring test `a in b`                       *)
(***************************************************************************)
UpperCase == <<"A","B","C","D","E","F","G","H","I","J","K","L","M",
               "N","O","P","Q","R","S","T","U","V","W","X","Y","Z">>
LowerCase == <<"a","b","c","d","e","f","g","h","i","j","k","l","m",
               "n","o","p","q","r","s","t","u","v","w","x","y","z">>

\* str.upper() on one character
UpperChar(c) ==
    IF \E k \in 1..26 : LowerCase[k] = c
    THEN UpperCase[CHOOSE k \in 1..26 : LowerCase[k] = c]
    ELSE c

\* str.upper()
Upper(text) == [k \in 1..Len(text) |-> UpperChar(text[k])]

\* str.lower() on one character
LowerChar(c) ==
    IF \E k \in 1..26 : UpperCase[k] = c
    THEN LowerCase[CHOOSE k \in 1..26 : UpperCase[k] = c]
    ELSE c

\* text.lower()
Lower(text) == [k \in 1..Len(text) |-> LowerChar(text[k])]

\* `sub in text`
Contains(sub, text) ==
    \E k \in 0..(Len(text) - Len(sub)) : SubSeq(text, k + 1, k + Len(sub)) = sub

\* f"{a} {b}"
JoinWithSpace(a, b) == a \o <<" ">> \o b

(***************************************************************************)
(* perform_ner (backend_app.py and pages/SBI.py)                           *)
(***************************************************************************)
NA == <<"N","/","A">>

\* the literals of the `or` chain, in order
ner_aliases ==
    << <<"i","n","d","i","a","n"," ","r","a","i","l","w","a","y","s"," ","c","a","t","e","r","i","n","g">>,
       <<"s","t","a","t","e"," ","b","a","n","k"," ","o","f"," ","i","n","d","i","a">>,
       <<"t","a","t","a"," ","m","o","t","o","r","s">>,
       <<"b","h","a","r","a","t"," ","e","l","e","c","t","r","o","n","i","c","s">>,
       <<"i","n","d","i","g","o"," ","a","i","r","l","i","n","e","s">>,
       <<"b","e","l">>,
       <<"s","b","i">> >>

SBI_ner_aliases ==
    << <<"s","t","a","t","e"," ","b","a","n","k"," ","o","f"," ","i","n","d","i","a">>,
       <<"s","b","i">>,
       <<"i","n","d","i","a","n"," ","r","a","i","l","w","a","y","s"," ","c","a","t","e","r","i","n","g">>,
       <<"t","a","t","a"," ","m","o","t","o","r","s">>,
       <<"b","h","a","r","a","t"," ","e","l","e","c","t","r","o","n","i","c","s">>,
       <<"i","n","d","i","g","o"," ","a","i","r","l","i","n","e","s">>,
       <<"b","e","l">>,
       <<"i","r","c","t","c">> >>

\* the body shared by both copies: the symbol test, then the alias literals
NerMatch(text, current_stock_symbol, aliases) ==
    LET text_lower == Lower(text)
    IN  IF \/ Contains(Lower(current_stock_symbol), text_lower)
           \/ \E k \in 1..Len(aliases) : Contains(aliases[k], text_lower)
        THEN current_stock_symbol
        ELSE NA

\* (mutant of perform_ner: the "bel" literal is lost from the chain)
perform_ner_NoBel(text, current_stock_symbol) ==
    NerMatch(text, current_stock_symbol, SubSeq(ner_aliases, 1, 5) \o SubSeq(ner_aliases, 7, 7))

perform_ner(text, current_stock_symbol) ==
    NerMatch(text, current_stock_symbol, ner_aliases)

SBI_perform_ner(text, current_stock_symbol) ==
    NerMatch(text, current_stock_symbol, SBI_ner_aliases)

(***************************************************************************)
(* analyze_sentiment (backend_app.py and pages/SBI.py)                     *)
(***************************************************************************)
positive_keywords ==
    << <<"p","r","o","f","i","t">>,
       <<"s","o","a","r">>,
       <<"j","u","m","p">>,
       <<"r","i","s","e","s">>,
       <<"i","n","v","e","s","t">>,
       <<"c","o","n","t","r","a","c","t">>,
       <<"b","o","o","s","t","s">>,
       <<"g","r","o","w","t","h">>,
       <<"s","t","r","o","n","g">>,
       <<"i","m","p","r","o","v","e","s">>,
       <<"e","x","p","a","n","d","s">>,
       <<"d","i","v","i","d","e","n","d">>,
       <<"b","u","l","l","i","s","h">>,
       <<"e","x","c","e","e","d","i","n","g"," ","e","x","p","e","c","t","a","t","i","o","n","s">>,
       <<"r","o","b","u","s","t">>,
       <<"h","e","a","l","t","h","y">>,
       <<"g","a","i","n","s">>,
       <<"p","a","r","t","n","e","r","s","h","i","p">>,
       <<"c","o","l","l","a","b","o","r","a","t","i","o","n">>,
       <<"l","a","u","n","c","h">> >>

negative_keywords ==
    << <<"l","o","s","s">>,
       <<"h","e","a","d","w","i","n","d","s">>,
       <<"r","i","s","i","n","g"," ","f","u","e","l">>,
       <<"s","u","p","p","l","y"," ","c","h","a","i","n"," ","i","s","s","u","e","s">>,
       <<"m","i","s","s","e","d">>,
       <<"r","e","s","i","g","n","e","d">>,
       <<"d","o","w","n","g","r","a","d","e">>,
       <<"d","e","c","l","i","n","e">>,
       <<"f","a","l","l">>,
       <<"s","t","r","u","g","g","l","e">>,
       <<"u","n","c","e","r","t","a","i","n","t","y">>,
       <<"v","o","l","a","t","i","l","i","t","y">>,
       <<"c","h","a","l","l","e","n","g","e","s">> >>

neutral_keywords ==
    << <<"b","o","a","r","d"," ","a","p","p","r","o","v","e","s">>,
       <<"p","l","a","n","s">>,
       <<"a","n","n","o","u","n","c","e","s">>,
       <<"d","e","c","i","s","i","o","n">>,
       <<"d","i","s","c","u","s","s","i","o","n","s">>,
       <<"t","a","l","k","s">>,
       <<"q","u","a","r","t","e","r","l","y"," ","r","e","s","u","l","t","s">> >>

SBI_extra_positive ==
    << <<"l","o","a","n"," ","g","r","o","w","t","h">>,
       <<"d","e","p","o","s","i","t"," ","g","r","o","w","t","h">>,
       <<"a","s","s","e","t"," ","q","u","a","l","i","t","y"," ","i","m","p","r","o","v","e","s">>,
       <<"N","P","A"," ","r","e","d","u","c","t","i","o","n">>,
       <<"c","r","e","d","i","t"," ","e","x","p","a","n","s","i","o","n">> >>

SBI_extra_negative ==
    << <<"N","P","A"," ","i","n","c","r","e","a","s","e">>,
       <<"f","r","a","u","d">>,
       <<"s","c","a","m">>,
       <<"r","e","g","u","l","a","t","o","r","y"," ","f","i","n","e">> >>

SBI_extra_neutral ==
    << <<"R","B","I">>,
       <<"p","o","l","i","c","y">>,
       <<"i","n","t","e","r","e","s","t"," ","r","a","t","e","s">> >>

SBI_positive_keywords == positive_keywords \o SBI_extra_positive
SBI_negative_keywords == negative_keywords \o SBI_extra_negative
SBI_neutral_keywords == neutral_keywords \o SBI_extra_neutral

\* `for keyword in keywords: if keyword in text_lower: score += step`, from the
\* k-th keyword on
RECURSIVE ScoreLoop(_, _, _, _, _)
ScoreLoop(keywords, k, text_lower, step, score) ==
    IF k > Len(keywords) THEN score
    ELSE ScoreLoop(keywords, k + 1, text_lower, step,
                   IF Contains(keywords[k], text_lower) THEN score + step ELSE score)

\* (mutant of SentimentScore: no negative loop)
SentimentScore_PositiveOnly(text_lower, positive, negative) ==
    ScoreLoop(positive, 1, text_lower, 1, 0)

\* score after both loops
SentimentScore(text_lower, positive, negative) ==
    ScoreLoop(negative, 1, text_lower, -1, ScoreLoop(positive, 1, text_lower, 1, 0))

\* the body shared by both copies
SentimentLabel(text, positive, negative, neutral) ==
    LET text_lower == Lower(text)
        score == SentimentScore(text_lower, positive, negative)
    IN  IF score > 0 THEN "positive"
        ELSE IF score < 0 THEN "negative"
        ELSE IF \E k \in 1..Len(neutral) : Contains(neutral[k], text_lower)
             THEN "neutral"
             ELSE "neutral"

analyze_sentiment(text) ==
    SentimentLabel(text, positive_keywords, negative_keywords, neutral_keywords)

SBI_analyze_sentiment(text) ==
    SentimentLabel(text, SBI_positive_keywords, SBI_negative_keywords, SBI_neutral_keywords)

(***************************************************************************)
(* Inputs of the text functions: a text is up to MaxFrags fragments, one    *)
(* after the other; a symbol is one of the five tracked equities.          *)
(***************************************************************************)
Fragments ==
    << <<"p","r","o","f","i","t">>,
       <<"P","r","o","f","i","t"," ","a","f","t","e","r"," ","p","r","o","f","i","t">>,
       <<"l","o","s","s">>,
       <<"d","e","c","l","i","n","e">>,
       <<"p","l","a","n","s">>,
       <<"f","r","a","u","d">>,
       <<"N","P","A"," ","i","n","c","r","e","a","s","e">>,
       <<"l","o","a","n"," ","g","r","o","w","t","h">>,
       <<" ">>,
       <<"l","a","b","e","l">>,
       <<"I","R","C","T","C">>,
       <<"T","a","t","a"," ","M","o","t","o","r","s">>,
       <<"I","n","d","i","g","o"," ","A","i","r","l","i","n","e","s">>,
       <<"S","t","a","t","e"," ","B","a","n","k"," ","o","f"," ","I","n","d","i","a">>,
       <<"I","n","d","i","a","n"," ","R","a","i","l","w","a","y","s"," ","C","a","t","e","r","i","n","g">>,
       <<"B","h","a","r","a","t"," ","E","l","e","c","t","r","o","n","i","c","s">>,
       <<"S","B","I"," ","r","e","p","o","r","t","s"," ","r","e","c","o","r","d"," ","p","r","o","f","i","t">>,
       <<"R","a","n","d","o","m"," ","u","n","r","e","l","a","t","e","d"," ","h","e","a","d","l","i","n","e">> >>

RECURSIVE Concat(_)
Concat(frags) == IF frags = <<>> THEN <<>> ELSE Head(frags) \o Concat(Tail(frags))

Texts == { Concat(fs) : fs \in UNION { [1..n -> { Fragments[k] : k \in 1..Len(Fragments) }] : n \in 0..MaxFrags } }

TrackedSymbols ==
    { <<"I","R","C","T","C">>,
      <<"S","B","I">>,
      <<"B","E","L">>,
      <<"T","A","T","A","M","O","T","O","R","S">>,
      <<"I","N","D","I","G","O">> }

(***************************************************************************)
(* map_news_to_action (backend_app.py and pages/SBI.py)                    *)
(***************************************************************************)
Sentiments == {"positive", "negative", "neutral", "N/A", "mixed"}

\* (mutant of map_news_to_action: the negative branch uses the positive branch's
\* stop-loss and take-profit bases)
map_news_to_action_CopiedBases(sentiment, x) ==
    LET x4 == Skip(x, 3)
        x5 == NextRng(x4)
        x6 == NextRng(x5)
    IN  IF sentiment = "positive"
        THEN [ recommended_action |-> "BUY",
               confidence  |-> Round2(Uniform(700, 900, x4)),
               stop_loss   |-> Round2(Uniform(2500, 3500, x5)),
               take_profit |-> Round2(Uniform(5000, 7000, x6)) ]
        ELSE IF sentiment = "negative"
        THEN [ recommended_action |-> "SELL/SHORT",
               confidence  |-> Round2(Uniform(700, 900, x4)),
               stop_loss   |-> Round2(Uniform(2500, 3500, x5)),
               take_profit |-> Round2(Uniform(5000, 7000, x6)) ]
        ELSE [ recommended_action |-> "HOLD",
               confidence  |-> Round2(Uniform(400, 600, x)),
               stop_loss   |-> Round2(Uniform(1000, 2000, NextRng(x))),
               take_profit |-> Round2(Uniform(2000, 4000, Skip(x, 2))) ]

\* (mutant of map_news_to_action: stop_loss and take_profit are exchanged)
map_news_to_action_Exchanged(sentiment, x) ==
    LET x4 == Skip(x, 3)
        x5 == NextRng(x4)
        x6 == NextRng(x5)
    IN  IF sentiment = "positive"
        THEN [ recommended_action |-> "BUY",
               confidence  |-> Round2(Uniform(700, 900, x4)),
               stop_loss   |-> Round2(Uniform(5000, 7000, x6)),
               take_profit |-> Round2(Uniform(2500, 3500, x5)) ]
        ELSE IF sentiment = "negative"
        THEN [ recommended_action |-> "SELL/SHORT",
               confidence  |-> Round2(Uniform(700, 900, x4)),
               stop_loss   |-> Round2(Uniform(6000, 8000, x6)),
               take_profit |-> Round2(Uniform(3000, 4000, x5)) ]
        ELSE [ recommended_action |-> "HOLD",
               confidence  |-> Round2(Uniform(400, 600, x)),
               stop_loss   |-> Round2(Uniform(2000, 4000, Skip(x, 2))),
               take_profit |-> Round2(Uniform(1000, 2000, NextRng(x))) ]

\* x is the generator state on entry: three draws for the HOLD defaults, three
\* more in the positive and in the negative branch
map_news_to_action(sentiment, x) ==
    LET x1 == x
        x2 == NextRng(x1)
        x3 == NextRng(x2)
        x4 == NextRng(x3)
        x5 == NextRng(x4)
        x6 == NextRng(x5)
    IN  IF sentiment = "positive"
        THEN [ recommended_action |-> "BUY",
               confidence  |-> Round2(Uniform(700, 900, x4)),
               stop_loss   |-> Round2(Uniform(2500, 3500, x5)),
               take_profit |-> Round2(Uniform(5000, 7000, x6)) ]
        ELSE IF sentiment = "negative"
        THEN [ recommended_action |-> "SELL/SHORT",
               confidence  |-> Round2(Uniform(700, 900, x4)),
               stop_loss   |-> Round2(Uniform(3000, 4000, x5)),
               take_profit |-> Round2(Uniform(6000, 8000, x6)) ]
        ELSE [ recommended_action |-> "HOLD",
               confidence  |-> Round2(Uniform(400, 600, x1)),
               stop_loss   |-> Round2(Uniform(1000, 2000, x2)),
               take_profit |-> Round2(Uniform(2000, 4000, x3)) ]

\* the generator state the call leaves behind
MapRngAfter(sentiment, x) ==
    IF sentiment \in {"positive", "negative"} THEN Skip(x, 6) ELSE Skip(x, 3)

(***************************************************************************)
(* get_financial_news_api (backend_app.py)                                 *)
(*                                                                         *)
(* A dict value is a sequence of strings: a text is a sequence of          *)
(* characters, any other value (a url, a date, an event tag) is one        *)
(* string.  Absent marks a key the provider's JSON does not have, Null a   *)
(* key whose value is JSON null (None).                                    *)
(***************************************************************************)
Absent == <<"<absent>">>
Null == <<"<None>">>

\* dict.get(key, default): the default only when the key is absent
Get(value, default) == IF value = Absent THEN default ELSE value

\* f"{value}": None is written "None"
Format(value) == IF value = Null THEN <<"N","o","n","e">> ELSE value

MockTitlePrefix ==
    << "M","o","c","k"," ","N","e","w","s"," ","f","o","r"," " >>
KeyMissingSuffix ==
    << " ","-"," ","K","e","y"," ","M","i","s","s","i","n","g" >>
RateLimitSuffix ==
    << " ","-"," ","R","a","t","e"," ","L","i","m","i","t" >>
TimeoutSuffix ==
    << " ","-"," ","T","i","m","e","o","u","t" >>
RequestFailedSuffix ==
    << " ","-"," ","R","e","q","u","e","s","t"," ","F","a","i","l","e",
       "d" >>
KeyMissingContent ==
    << "T","h","i","s"," ","i","s"," ","a"," ","m","o","c","k"," ","n",
       "e","w","s"," ","a","r","t","i","c","l","e"," ","b","e","c","a",
       "u","s","e"," ","t","h","e"," ","N","e","w","s","A","P","I"," ",
       "k","e","y"," ","i","s"," ","n","o","t"," ","c","o","n","f","i",
       "g","u","r","e","d"," ","o","r"," ","a","n"," ","e","r","r","o",
       "r"," ","o","c","c","u","r","r","e","d","." >>
RateLimitContent ==
    << "T","h","i","s"," ","i","s"," ","a"," ","m","o","c","k"," ","n",
       "e","w","s"," ","a","r","t","i","c","l","e"," ","d","u","e"," ",
       "t","o"," ","N","e","w","s","A","P","I",".","o","r","g"," ","r",
       "a","t","e"," ","l","i","m","i","t","s","." >>
TimeoutContent ==
    << "T","h","i","s"," ","i","s"," ","a"," ","m","o","c","k"," ","n",
       "e","w","s"," ","a","r","t","i","c","l","e"," ","d","u","e"," ",
       "t","o"," ","N","e","w","s","A","P","I",".","o","r","g"," ","t",
       "i","m","e","o","u","t","." >>
RequestFailedContent ==
    << "T","h","i","s"," ","i","s"," ","a"," ","m","o","c","k"," ","n",
       "e","w","s"," ","a","r","t","i","c","l","e"," ","d","u","e"," ",
       "t","o"," ","N","e","w","s","A","P","I",".","o","r","g"," ","r",
       "e","q","u","e","s","t"," ","f","a","i","l","u","r","e","." >>
RateLimitPhrase ==
    << "m","a","x","i","m","u","m"," ","r","e","s","u","l","t","s"," ",
       "f","o","r"," ","f","r","e","e"," ","p","l","a","n" >>
StockSuffix ==
    << " ","s","t","o","c","k" >>
NoTitle ==
    << "N","o"," ","T","i","t","l","e" >>
NoContent ==
    << "N","o"," ","c","o","n","t","e","n","t"," ","a","v","a","i","l",
       "a","b","l","e" >>
UnknownSource ==
    << "U","n","k","n","o","w","n" >>

\* the single synthetic article of a fallback
\* (mutant of MockArticle: the title does not quote the query)
MockArticle_NoQuery(query_text, suffix, content) ==
    [ source      |-> <<"Mock News">>,
      title       |-> MockTitlePrefix \o suffix,
      content     |-> content,
      url         |-> <<"#">>,
      publishedAt |-> <<"datetime.now().isoformat()">>,
      event       |-> <<"Mock Event">> ]

MockArticle(query_text, suffix, content) ==
    [ source      |-> <<"Mock News">>,
      title       |-> MockTitlePrefix \o query_text \o suffix,
      content     |-> content,
      url         |-> <<"#">>,
      publishedAt |-> <<"datetime.now().isoformat()">>,
      event       |-> <<"Mock Event">> ]

\* (mutant of CanonicalArticle: genuine articles carry the mock tag)
CanonicalArticle_MockEvent(article) ==
    [ source      |-> Get(article.source_name, UnknownSource),
      title       |-> Get(article.title, NoTitle),
      content     |-> Get(article.description, Get(article.content, NoContent)),
      url         |-> Get(article.url, <<"#">>),
      publishedAt |-> Get(article.publishedAt, <<"N/A">>),
      event       |-> <<"Mock Event">> ]

\* one provider article translated to the canonical dict
CanonicalArticle(article) ==
    [ source      |-> Get(article.source_name, UnknownSource),
      title       |-> Get(article.title, NoTitle),
      content     |-> Get(article.description, Get(article.content, NoContent)),
      url         |-> Get(article.url, <<"#">>),
      publishedAt |-> Get(article.publishedAt, <<"N/A">>),
      event       |-> <<"General News">> ]

\* what the provider can answer (the request's outcome)
Msg_free_plan ==
    << "Y","o","u"," ","h","a","v","e"," ","r","e","a","c","h","e","d",
       " ","t","h","e"," ","m","a","x","i","m","u","m"," ","r","e","s",
       "u","l","t","s"," ","f","o","r"," ","f","r","e","e"," ","p","l",
       "a","n","." >>
Msg_too_many_requests ==
    << "Y","o","u"," ","h","a","v","e"," ","m","a","d","e"," ","t","o",
       "o"," ","m","a","n","y"," ","r","e","q","u","e","s","t","s"," ",
       "r","e","c","e","n","t","l","y","." >>
Msg_api_key_invalid ==
    << "Y","o","u","r"," ","A","P","I"," ","k","e","y"," ","i","s"," ",
       "i","n","v","a","l","i","d","." >>
ProviderArticles ==
    << [ source_name |-> <<"Reuters">>,
         title |-> <<"S","B","I"," ","r","e","p","o","r","t","s"," ","r","e","c","o","r","d"," ","p","r","o","f","i","t">>,
         description |-> <<"p","l","a","n","s">>,
         content |-> Absent,
         url |-> <<"https://example.com/1">>,
         publishedAt |-> <<"2025-01-01T00:00:00Z">> ],
       [ source_name |-> <<"Mint">>,
         title |-> <<"R","a","n","d","o","m"," ","u","n","r","e","l","a","t","e","d"," ","h","e","a","d","l","i","n","e">>,
         description |-> <<"l","o","s","s">>,
         content |-> Absent,
         url |-> <<"https://example.com/2">>,
         publishedAt |-> <<"2025-01-02T00:00:00Z">> ],
       [ source_name |-> Absent,
         title |-> <<"T","a","t","a"," ","M","o","t","o","r","s">>,
         description |-> Absent,
         content |-> <<"d","e","c","l","i","n","e">>,
         url |-> <<"https://example.com/3">>,
         publishedAt |-> <<"2025-01-03T00:00:00Z">> ],
       \* a record whose fields are JSON null (the content key has a text)
       [ source_name |-> Null,
         title |-> Null,
         description |-> Null,
         content |-> <<"g","r","o","w","t","h">>,
         url |-> Null,
         publishedAt |-> Null ] >>

\* the provider's article arrays: up to MaxArticles articles, any order, repeats allowed
ArticleLists ==
    UNION { [1..n -> { ProviderArticles[k] : k \in 1..Len(ProviderArticles) }] : n \in 0..MaxArticles }

Messages == {Msg_free_plan, Msg_too_many_requests, Msg_api_key_invalid, Absent}

\* outcome of requests.get(...), raise_for_status() and response.json():
\*   timeout                  requests.exceptions.Timeout
\*   transport_error          another RequestException (connection refused, ...)
\*   http_error_status        raise_for_status() raises HTTPError (a RequestException)
\*   undecodable_body         response.json() raises requests' JSONDecodeError
\*                            (a RequestException since requests 2.27)
\*   undecodable_body_legacy  response.json() raises ValueError (older requests)
\*   json                     a decoded body: status, articles (when has_articles), message
NoBody(kind) ==
    [ kind |-> kind, status |-> Absent, has_articles |-> FALSE, articles |-> <<>>,
      message |-> Absent ]

\* a response with an HTTP error status (429, 401, 500, ...); its body, which the
\* code never reads, may carry the provider's error message
HttpError(message) ==
    [ kind |-> "http_error_status", status |-> <<"error">>, has_articles |-> FALSE,
      articles |-> <<>>, message |-> message ]

JsonBody(status, has_articles, articles, message) ==
    [ kind |-> "json", status |-> status, has_articles |-> has_articles,
      articles |-> articles, message |-> message ]

ProviderOutcomes ==
    { NoBody(k) : k \in {"timeout", "transport_error",
                         "undecodable_body", "undecodable_body_legacy"} }
    \cup { HttpError(m) : m \in {Absent, Msg_too_many_requests, Msg_free_plan} }
    \cup { JsonBody(<<"ok">>, TRUE, a, Absent) : a \in ArticleLists }
    \cup { JsonBody(<<"ok">>, FALSE, <<>>, Absent) }
    \cup { JsonBody(<<"error">>, FALSE, <<>>, m) : m \in Messages }
    \cup { JsonBody(s, TRUE, <<>>, Absent) : s \in {<<"unknown">>, Absent} }

\* before any request
NoReply == NoBody("none")

\* how a call ends: "return" with the list items, "return_none" (the function
\* falls off its end), "HTTPException" (raised by the function) or "exception"
\* (an exception no except clause of the function catches)
Ended(kind, items) == [kind |-> kind, items |-> items]

get_financial_news_api(query_text, api_key, outcome) ==
    IF ~api_key
    THEN Ended("return", <<MockArticle(query_text, KeyMissingSuffix, KeyMissingContent)>>)
    ELSE IF outcome.kind = "timeout"
    THEN Ended("return", <<MockArticle(query_text, TimeoutSuffix, TimeoutContent)>>)
    ELSE IF outcome.kind \in {"transport_error", "http_error_status", "undecodable_body"}
    THEN Ended("return", <<MockArticle(query_text, RequestFailedSuffix, RequestFailedContent)>>)
    ELSE IF outcome.kind = "undecodable_body_legacy"
    THEN Ended("exception", <<>>)
    ELSE IF outcome.status = Absent
    THEN Ended("exception", <<>>)                      \* data["status"]: KeyError
    ELSE IF outcome.status = <<"ok">>
    THEN IF ~outcome.has_articles
         THEN Ended("exception", <<>>)                 \* data["articles"]: KeyError
         ELSE Ended("return", [k \in 1..Len(outcome.articles) |->
                                 CanonicalArticle(outcome.articles[k])])
    ELSE IF outcome.status = <<"error">>
    THEN IF outcome.message = Absent
         THEN Ended("exception", <<>>)                 \* data['message']: KeyError
         ELSE IF Contains(RateLimitPhrase, outcome.message)
         THEN Ended("return", <<MockArticle(query_text, RateLimitSuffix, RateLimitContent)>>)
         ELSE Ended("HTTPException", <<>>)
    ELSE Ended("return_none", <<>>)

ApiErrorSuffix ==
    << " ","-"," ","A","P","I"," ","E","r","r","o","r",":"," " >>
ApiErrorContent ==
    << "N","e","w","s"," ","f","e","t","c","h","i","n","g"," ","f","a",
       "i","l","e","d","."," ","U","s","i","n","g"," ","m","o","c","k",
       " ","d","a","t","a","." >>
SBI_NewsQuery ==
    << "S","t","a","t","e"," ","B","a","n","k"," ","o","f"," ","I","n",
       "d","i","a"," ","O","R"," ","S","B","I"," ","s","t","o","c","k" >>
SBI_CURRENT_STOCK == << "S","B","I" >>

\* pages/SBI.py: the same function, except that an error status that is not the
\* free-plan limit also returns a mock article
SBI_get_financial_news_api(query_text, api_key, outcome) ==
    IF api_key /\ outcome.kind = "json" /\ outcome.status = <<"error">>
       /\ outcome.message # Absent /\ ~Contains(RateLimitPhrase, outcome.message)
    THEN Ended("return", <<MockArticle(query_text, ApiErrorSuffix \o Format(outcome.message),
                                        ApiErrorContent)>>)
    ELSE get_financial_news_api(query_text, api_key, outcome)

\* (mutant of NewsRequests: the request is issued before the key is tested)
NewsRequests_Always(api_key) == 1

\* requests.get is reached only past the `if not NEWS_API_KEY: return`
NewsRequests(api_key) == IF api_key THEN 1 ELSE 0

Pages == {"backend", "SBI"}

(***************************************************************************)
(* get_news_and_analysis_endpoint (POST /news_analysis)                    *)
(***************************************************************************)
\* (mutant of DefaultSignal: the ticker is the "N/A" sentinel)
DefaultSignal_NoTicker(symbol) ==
    [ ticker |-> NA, sentiment |-> "N/A", event |-> <<"N/A">>, confidence |-> 0,
      recommended_action |-> "HOLD", stop_loss |-> 0, take_profit |-> 0 ]

\* latest_trading_signal as initialised before the loop
DefaultSignal(symbol) ==
    [ ticker |-> symbol, sentiment |-> "N/A", event |-> <<"N/A">>, confidence |-> 0,
      recommended_action |-> "HOLD", stop_loss |-> 0, take_profit |-> 0 ]

UnsetSignal ==
    [ ticker |-> <<>>, sentiment |-> "", event |-> <<>>, confidence |-> 0,
      recommended_action |-> "", stop_loss |-> 0, take_profit |-> 0 ]

UnsetArticles == [kind |-> "unset", items |-> <<>>]
NoResponse == [status |-> 0, news |-> <<>>, trading_signal |-> UnsetSignal]
NoCalls == [perform_ner |-> 0, analyze_sentiment |-> 0, map_news_to_action |-> 0]

\* `not raw_articles`: None and the empty list are falsy
Falsy(articles) == articles.kind = "None" \/ articles.items = <<>>

\* full_text = f"{news_item.get('title', '')} {news_item.get('content', '')}"
FullText(news_item) == JoinWithSpace(Format(news_item.title), Format(news_item.content))

\* (mutant of ProcessedItem: the event is always the genuine-article tag)
ProcessedItem_ConstantEvent(news_item, sentiment, mapped) ==
    [ source             |-> news_item.source,
      title              |-> news_item.title,
      content            |-> news_item.content,
      url                |-> news_item.url,
      publishedAt        |-> news_item.publishedAt,
      sentiment          |-> sentiment,
      event              |-> <<"General News">>,
      recommended_action |-> mapped.recommended_action,
      confidence         |-> mapped.confidence ]

\* processed_news_item of one loop iteration
ProcessedItem(news_item, sentiment, mapped) ==
    [ source             |-> news_item.source,
      title              |-> news_item.title,
      content            |-> news_item.content,
      url                |-> news_item.url,
      publishedAt        |-> news_item.publishedAt,
      sentiment          |-> sentiment,
      event              |-> news_item.event,
      recommended_action |-> mapped.recommended_action,
      confidence         |-> mapped.confidence ]

\* (mutant of IsFirst: the signal is rebuilt in every iteration)
IsFirst_Always(i) == TRUE

\* `if i == 0:`
IsFirst(i) == i = 0

\* (mutant of SignalOf: the default's sentiment is kept)
SignalOf_DefaultSentiment(ticker_identified, news_item, sentiment, mapped) ==
    [ ticker             |-> ticker_identified,
      sentiment          |-> "N/A",
      event              |-> news_item.event,
      confidence         |-> mapped.confidence,
      recommended_action |-> mapped.recommended_action,
      stop_loss          |-> mapped.stop_loss,
      take_profit        |-> mapped.take_profit ]

\* latest_trading_signal as rebuilt in the iteration i == 0
SignalOf(ticker_identified, news_item, sentiment, mapped) ==
    [ ticker             |-> ticker_identified,
      sentiment          |-> sentiment,
      event              |-> news_item.event,
      confidence         |-> mapped.confidence,
      recommended_action |-> mapped.recommended_action,
      stop_loss          |-> mapped.stop_loss,
      take_profit        |-> mapped.take_profit ]

(***************************************************************************)
(* pages/IRCTC.py: get_news_and_analysis_from_backend                      *)
(***************************************************************************)
\* what requests.post(...), raise_for_status() and response.json() come to:
\*   connection_error         requests.post raises (backend down, timeout)
\*   http_error_status        raise_for_status() raises HTTPError (4xx, 5xx)
\*   undecodable_body         response.json() raises requests' JSONDecodeError
\*   undecodable_body_legacy  response.json() raises ValueError (older requests)
\*   json                     a 2xx answer with a decoded body
BackendOutcome(kind, body) == [kind |-> kind, body |-> body]

NoBackendBody == [news |-> <<>>, trading_signal |-> UnsetSignal]

NoBackendOutcome == BackendOutcome("none_yet", NoBackendBody)

NoClientResult == [kind |-> "", body |-> NoBackendBody]

\* (mutant of IRCTC_DefaultAnswer: the fallback signal is labelled neutral)
IRCTC_DefaultAnswer_Neutral(query_text) ==
    [ news |-> <<>>,
      trading_signal |->
        [ ticker |-> query_text, sentiment |-> "neutral", event |-> <<"N/A">>,
          confidence |-> 0, recommended_action |-> "HOLD", stop_loss |-> 0,
          take_profit |-> 0 ] ]

\* the dict both except clauses return
IRCTC_DefaultAnswer(query_text) ==
    [ news |-> <<>>,
      trading_signal |->
        [ ticker |-> query_text, sentiment |-> "N/A", event |-> <<"N/A">>,
          confidence |-> 0, recommended_action |-> "HOLD", stop_loss |-> 0,
          take_profit |-> 0 ] ]

IRCTC_get_news_and_analysis_from_backend(query_text, outcome) ==
    IF outcome.kind = "json"
    THEN [kind |-> "return", body |-> outcome.body]
    ELSE IF outcome.kind \in {"connection_error", "http_error_status", "undecodable_body"}
    THEN [kind |-> "return", body |-> IRCTC_DefaultAnswer(query_text)]   \* RequestException
    ELSE [kind |-> "return", body |-> IRCTC_DefaultAnswer(query_text)]   \* Exception

\* what the client sees of the backend's answer, when the body arrives as
\* `arrival` says: "intact", or decoded with one of the two json() failures
SeenByClient(answer, arrival) ==
    IF answer.status # 200
    THEN BackendOutcome("http_error_status", NoBackendBody)
    ELSE IF arrival = "intact"
    THEN BackendOutcome("json", [news |-> answer.news,
                                 trading_signal |-> answer.trading_signal])
    ELSE BackendOutcome(arrival, NoBackendBody)

(***************************************************************************)
(* get_yfinance_symbol, get_live_stock_price_yf, get_historical_ohlc_yf    *)
(* (backend_app.py and pages/SBI.py) and the two price endpoints           *)
(***************************************************************************)
NSE == << "N","S","E" >>
BSE == << "B","S","E" >>
SuffixNS == << ".","N","S" >>
SuffixBO == << ".","B","O" >>

\* (mutant of get_yfinance_symbol: every exchange gets the NSE suffix)
get_yfinance_symbol_AlwaysNS(symbol, exch) == symbol \o SuffixNS

\* backend_app.py
get_yfinance_symbol(symbol, exch) ==
    IF Upper(exch) = NSE THEN symbol \o SuffixNS
    ELSE IF Upper(exch) = BSE THEN symbol \o SuffixBO
    ELSE symbol

\* pages/SBI.py: SBI is listed as SBIN
SBI_get_yfinance_symbol(symbol, exch) ==
    IF Upper(symbol) = << "S","B","I" >> /\ Upper(exch) = NSE
    THEN << "S","B","I","N" >> \o SuffixNS
    ELSE IF Upper(symbol) = << "S","B","I" >> /\ Upper(exch) = BSE
    THEN << "S","B","I","N" >> \o SuffixBO
    ELSE IF Upper(exch) = NSE THEN symbol \o SuffixNS
    ELSE IF Upper(exch) = BSE THEN symbol \o SuffixBO
    ELSE symbol

YfSymbol(p, symbol, exch) ==
    IF p = "SBI" THEN SBI_get_yfinance_symbol(symbol, exch)
    ELSE get_yfinance_symbol(symbol, exch)

\* the generator of the copy that runs
PageMockRun(p, tf, override, now, x) ==
    IF p = "SBI" THEN SBI_MockRun(tf, override, now, x) ELSE MockRun(tf, override, now, x)

\* what yf.Ticker(...).info can give for 'regularMarketPrice':
\*   price     a number (thousandths)
\*   none      the key is absent or null
\*   text      a value float() rejects
\*   raises    yf.Ticker or .info raises
YfReply(kind, price, rows) == [kind |-> kind, price |-> price, rows |-> rows]

NoYfReply == YfReply("none_yet", 0, <<>>)

InfoReplies ==
    { YfReply("price", v, <<>>) : v \in {0, 812350, 1500} }
    \cup { YfReply(k, 0, <<>>) : k \in {"none", "text", "raises"} }

\* how a price call ended: "return" or "exception"
PriceEnded(kind, value, x) == [kind |-> kind, value |-> value, x |-> x]

NoPrice == [kind |-> "", value |-> 0]

\* (mutant of MockClose: the mock branch has no row to read)
MockClose_NoRow(run) == PriceEnded("exception", 0, run.x)

\* generate_mock_stock_data_local(...)['Close'].iloc[-1]
MockClose(run) ==
    IF run.data = <<>>
    THEN PriceEnded("exception", 0, run.x)                 \* iloc[-1]: IndexError
    ELSE PriceEnded("return", run.data[Len(run.data)].Close, run.x)

get_live_stock_price_yf(p, symbol, exch, reply, now, x) ==
    IF reply.kind = "price"
    THEN PriceEnded("return", reply.price, x)
    ELSE \* None, float() raising ValueError inside the try, or the provider raising
         MockClose(PageMockRun(p, "5m", <<1>>, now, x))

\* period_map.get(timeframe, '1y') and interval_map.get(timeframe, '1d')
HistPeriod(tf) ==
    CASE tf = "5m" -> "1d"
      [] tf = "1d" -> "5d"
      [] tf = "1w" -> "1mo"
      [] tf = "1m" -> "3mo"
      [] tf = "1y" -> "1y"
      [] OTHER     -> "1y"

HistInterval(tf) ==
    CASE tf = "5m" -> "5m"
      [] tf = "1d" -> "60m"
      [] tf = "1w" -> "1d"
      [] tf = "1m" -> "1d"
      [] tf = "1y" -> "1d"
      [] OTHER     -> "1d"

\* a row of ticker.history(): the OHLCV columns and yfinance's further columns
HistoryRow(date, close) ==
    [ Date |-> date, Open |-> close - 500, High |-> close + 1000, Low |-> close - 1000,
      Close |-> close, Volume |-> 250000, Dividends |-> 0, StockSplits |-> 0 ]

\* df[["Open", "High", "Low", "Close", "Volume"]] with the index named Date
SelectColumns(row) ==
    [ Date |-> row.Date, Open |-> row.Open, High |-> row.High, Low |-> row.Low,
      Close |-> row.Close, Volume |-> row.Volume ]

\* what ticker.history(...) can give:
\*   data             a non-empty frame
\*   empty            an empty frame
\*   missing_columns  a non-empty frame without the OHLCV columns (the selection raises)
\*   raises           yf.Ticker or .history raises
HistoryReplies ==
    { YfReply("data", 0, <<HistoryRow(0, 812350)>>),
      YfReply("data", 0, <<HistoryRow(0, 812350), HistoryRow(86400, 815000)>>),
      YfReply("empty", 0, <<>>),
      YfReply("missing_columns", 0, <<>>),
      YfReply("raises", 0, <<>>) }

\* how a history call ended: the frame's rows and the generator state
HistEnded(rows, x) == [kind |-> "return", rows |-> rows, x |-> x]

NoOhlc == [kind |-> "", rows |-> <<>>]

get_historical_ohlc_yf(p, symbol, tf, exch, reply, now, x) ==
    IF reply.kind = "data"
    THEN HistEnded([k \in 1..Len(reply.rows) |-> SelectColumns(reply.rows[k])], x)
    ELSE \* empty frame, or an exception inside the try
         LET run == PageMockRun(p, tf, NoOverride, now, x)
         IN  HistEnded(run.data, run.x)

\* /historical_data: `if df.empty: raise HTTPException(404)`, else the records
HistoricalStatus(rows) == IF rows = <<>> THEN 404 ELSE 200

\* the (symbol, exchange) pairs the calls are made with
Exchanges == { NSE, BSE, << "n","s","e" >>, << "N","Y","S","E" >> }
PriceSymbols == TrackedSymbols \cup { << "s","b","i" >> }

(***************************************************************************)
(* State machine.  A call starts from "idle" and is one step: the state    *)
(* after it holds the arguments and the returned value; the caller then    *)
(* drops them.  The generator state is arbitrary at the start.             *)
(***************************************************************************)
BlankMock ==
    /\ timeframe = ""
    /\ num_points_override = NoOverride
    /\ current_date = 0
    /\ series = <<>>

BlankNlp ==
    /\ nlp_impl = ""
    /\ nlp_text = <<>>
    /\ nlp_symbol = <<>>
    /\ ner_result = <<>>
    /\ sentiment_result = ""

BlankMap ==
    /\ map_sentiment = ""
    /\ action_data = [recommended_action |-> "", confidence |-> 0,
                      stop_loss |-> 0, take_profit |-> 0]

BlankPipeline ==
    /\ query = <<>>
    /\ raw_articles = UnsetArticles
    /\ loop_i = 0
    /\ processed_news = <<>>
    /\ latest_trading_signal = UnsetSignal
    /\ response = NoResponse
    /\ calls = NoCalls
    /\ page = ""
    /\ provider_reply = NoReply
    /\ fetch_ended = ""
    /\ requests_sent = 0

BlankPrice ==
    /\ price_page = ""
    /\ price_symbol = <<>>
    /\ exchange = <<>>
    /\ hist_timeframe = ""
    /\ yf_request = [ticker |-> <<>>, period |-> "", interval |-> ""]
    /\ yf_reply = NoYfReply
    /\ live_price = NoPrice
    /\ ohlc = NoOhlc
    /\ http_status = 0

BlankClient ==
    /\ client_outcome = NoBackendOutcome
    /\ client_result = NoClientResult

Blank == BlankMock /\ BlankNlp /\ BlankMap /\ BlankPipeline /\ BlankPrice /\ BlankClient

\* the caller drops the result of the call that returned
Return ==
    /\ pc \in {"mock_done", "nlp_done", "map_done"}
    /\ pc' = "idle"
    /\ timeframe' = ""
    /\ num_points_override' = NoOverride
    /\ current_date' = 0
    /\ series' = <<>>
    /\ nlp_impl' = ""
    /\ nlp_text' = <<>>
    /\ nlp_symbol' = <<>>
    /\ ner_result' = <<>>
    /\ sentiment_result' = ""
    /\ map_sentiment' = ""
    /\ action_data' = [recommended_action |-> "", confidence |-> 0,
                       stop_loss |-> 0, take_profit |-> 0]
    /\ query' = <<>>
    /\ raw_articles' = UnsetArticles
    /\ loop_i' = 0
    /\ processed_news' = <<>>
    /\ latest_trading_signal' = UnsetSignal
    /\ response' = NoResponse
    /\ calls' = NoCalls
    /\ page' = ""
    /\ provider_reply' = NoReply
    /\ fetch_ended' = ""
    /\ requests_sent' = 0
    /\ UNCHANGED <<rng, NEWS_API_KEY, priceVars, clientVars>>

(* ---- generate_mock_stock_data_local ---- *)
InitMock ==
    /\ pc = "idle"
    /\ rng \in 0..(RandMod - 1)
    /\ NEWS_API_KEY = FALSE
    /\ Blank

\* a call generate_mock_stock_data_local(tf, override) made at time now
GenerateMock ==
    /\ pc = "idle"
    /\ \E tf \in Timeframes, override \in Overrides, now \in 0..MaxNow :
          /\ timeframe' = tf
          /\ num_points_override' = override
          /\ current_date' = now
          /\ series' = generate_mock_stock_data_local(tf, override, now, rng)
          /\ rng' = MockRun(tf, override, now, rng).x
    /\ pc' = "mock_done"
    /\ UNCHANGED <<nlpVars, mapVars, pipeVars, priceVars, clientVars>>

NextMock == GenerateMock \/ Return

SpecMock == InitMock /\ [][NextMock]_vars

(* ---- perform_ner and analyze_sentiment ---- *)
InitNlp ==
    /\ pc = "idle"
    /\ rng = 0
    /\ NEWS_API_KEY = FALSE
    /\ Blank

\* a call perform_ner(text, symbol), of the backend's copy or of the SBI page's
CallPerformNer ==
    /\ pc = "idle"
    /\ \E impl \in {"backend", "SBI"}, text \in Texts, symbol \in TrackedSymbols :
          /\ nlp_impl' = impl
          /\ nlp_text' = text
          /\ nlp_symbol' = symbol
          /\ ner_result' = IF impl = "backend" THEN perform_ner(text, symbol)
                                              ELSE SBI_perform_ner(text, symbol)
    /\ pc' = "nlp_done"
    /\ UNCHANGED <<rng, sentiment_result, mockVars, mapVars, pipeVars, priceVars, clientVars>>

\* a call analyze_sentiment(text), of the backend's copy or of the SBI page's
CallAnalyzeSentiment ==
    /\ pc = "idle"
    /\ \E impl \in {"backend", "SBI"}, text \in Texts :
          /\ nlp_impl' = impl
          /\ nlp_text' = text
          /\ sentiment_result' = IF impl = "backend" THEN analyze_sentiment(text)
                                                    ELSE SBI_analyze_sentiment(text)
    /\ pc' = "nlp_done"
    /\ UNCHANGED <<rng, nlp_symbol, ner_result, mockVars, mapVars, pipeVars, priceVars, clientVars>>

NextNlp == CallPerformNer \/ CallAnalyzeSentiment \/ Return

SpecNlp == InitNlp /\ [][NextNlp]_vars

(* ---- map_news_to_action ---- *)
InitMap ==
    /\ pc = "idle"
    /\ rng \in 0..(RandMod - 1)
    /\ NEWS_API_KEY = FALSE
    /\ Blank

\* a call map_news_to_action(sentiment)
CallMapNewsToAction ==
    /\ pc = "idle"
    /\ \E sentiment \in Sentiments :
          /\ map_sentiment' = sentiment
          /\ action_data' = map_news_to_action(sentiment, rng)
          /\ rng' = MapRngAfter(sentiment, rng)
    /\ pc' = "map_done"
    /\ UNCHANGED <<mockVars, nlpVars, pipeVars, priceVars, clientVars>>

NextMap == CallMapNewsToAction \/ Return

SpecMap == InitMap /\ [][NextMap]_vars

(* ---- POST /news_analysis ---- *)
InitPipeline ==
    /\ pc = "idle"
    /\ rng \in 0..MaxSeed
    /\ NEWS_API_KEY \in BOOLEAN
    /\ Blank

\* the request arrives (or pages/SBI.py is run): raw_articles =
\* get_financial_news_api(...), then processed_news and latest_trading_signal are
\* initialised; an exception of the fetcher is answered with HTTP 500 by the
\* endpoint's except clauses (on the page it ends the run)
FetchNews ==
    /\ pc = "idle"
    /\ \E p \in Pages, symbol \in TrackedSymbols, outcome \in ProviderOutcomes :
          LET query_text == IF p = "SBI" THEN SBI_NewsQuery ELSE symbol \o StockSuffix
              r == IF p = "SBI"
                   THEN SBI_get_financial_news_api(query_text, NEWS_API_KEY, outcome)
                   ELSE get_financial_news_api(query_text, NEWS_API_KEY, outcome)
          IN  /\ p = "SBI" => symbol = SBI_CURRENT_STOCK
              /\ page' = p
              /\ query' = symbol
              /\ requests_sent' = NewsRequests(NEWS_API_KEY)
              /\ provider_reply' = IF NewsRequests(NEWS_API_KEY) = 0 THEN NoReply ELSE outcome
              /\ fetch_ended' = r.kind
              /\ IF r.kind \in {"HTTPException", "exception"}
                 THEN /\ pc' = "responded"
                      /\ response' = [status |-> 500, news |-> <<>>,
                                      trading_signal |-> UnsetSignal]
                      /\ UNCHANGED <<raw_articles, processed_news, latest_trading_signal>>
                 ELSE /\ pc' = "fetched"
                      /\ raw_articles' = [kind  |-> IF r.kind = "return_none"
                                                    THEN "None" ELSE "list",
                                          items |-> r.items]
                      /\ processed_news' = <<>>
                      /\ latest_trading_signal' = DefaultSignal(symbol)
                      /\ UNCHANGED response
    /\ UNCHANGED <<rng, NEWS_API_KEY, loop_i, calls, mockVars, nlpVars, mapVars, priceVars, clientVars>>

\* `if not raw_articles: return {"news": [], "trading_signal": latest_trading_signal}`
ReturnNoArticles ==
    /\ pc = "fetched"
    /\ Falsy(raw_articles)
    /\ response' = [status |-> 200, news |-> <<>>, trading_signal |-> latest_trading_signal]
    /\ pc' = "responded"
    /\ UNCHANGED <<rng, NEWS_API_KEY, query, raw_articles, loop_i, processed_news,
                   latest_trading_signal, calls, page, provider_reply, fetch_ended,
                   requests_sent, mockVars, nlpVars, mapVars, priceVars, clientVars>>

\* (mutant of ProcessArticle: the iteration also writes the sentiment into the
\* fetched article)
ProcessArticle_Annotating ==
    /\ pc = "fetched"
    /\ ~Falsy(raw_articles)
    /\ loop_i < Len(raw_articles.items)
    /\ LET news_item == raw_articles.items[loop_i + 1]
           full_text == FullText(news_item)
           sentiment == IF page = "SBI" THEN SBI_analyze_sentiment(full_text)
                        ELSE analyze_sentiment(full_text)
           mapped    == map_news_to_action(sentiment, rng)
           annotated == [f \in DOMAIN news_item \cup {"sentiment"} |->
                           IF f = "sentiment" THEN <<sentiment>> ELSE news_item[f]]
       IN  /\ processed_news' = Append(processed_news,
                                       ProcessedItem(news_item, sentiment, mapped))
           /\ raw_articles' = [raw_articles EXCEPT !.items[loop_i + 1] = annotated]
           /\ rng' = MapRngAfter(sentiment, rng)
    /\ loop_i' = loop_i + 1
    /\ UNCHANGED <<pc, NEWS_API_KEY, query, latest_trading_signal, calls, response, page,
                   provider_reply, fetch_ended, requests_sent,
                   mockVars, nlpVars, mapVars, priceVars, clientVars>>

\* one iteration of `for i, news_item in enumerate(raw_articles)`
ProcessArticle ==
    /\ pc = "fetched"
    /\ ~Falsy(raw_articles)
    /\ loop_i < Len(raw_articles.items)
    /\ LET news_item         == raw_articles.items[loop_i + 1]
           full_text         == FullText(news_item)
           ticker_identified == IF page = "SBI" THEN SBI_perform_ner(full_text, query)
                                ELSE perform_ner(full_text, query)
           sentiment         == IF page = "SBI" THEN SBI_analyze_sentiment(full_text)
                                ELSE analyze_sentiment(full_text)
           mapped            == map_news_to_action(sentiment, rng)
       IN  /\ processed_news' = Append(processed_news,
                                       ProcessedItem(news_item, sentiment, mapped))
           /\ latest_trading_signal' =
                 IF IsFirst(loop_i)
                 THEN SignalOf(ticker_identified, news_item, sentiment, mapped)
                 ELSE latest_trading_signal
           /\ rng' = MapRngAfter(sentiment, rng)
    /\ calls' = [perform_ner        |-> calls.perform_ner + 1,
                 analyze_sentiment  |-> calls.analyze_sentiment + 1,
                 map_news_to_action |-> calls.map_news_to_action + 1]
    /\ loop_i' = loop_i + 1
    /\ UNCHANGED <<pc, NEWS_API_KEY, query, raw_articles, response, page,
                   provider_reply, fetch_ended, requests_sent,
                   mockVars, nlpVars, mapVars, priceVars, clientVars>>

\* `return {"news": processed_news, "trading_signal": latest_trading_signal}`
ReturnProcessed ==
    /\ pc = "fetched"
    /\ ~Falsy(raw_articles)
    /\ loop_i = Len(raw_articles.items)
    /\ response' = [status |-> 200, news |-> processed_news,
                    trading_signal |-> latest_trading_signal]
    /\ pc' = "responded"
    /\ UNCHANGED <<rng, NEWS_API_KEY, query, raw_articles, loop_i, processed_news,
                   latest_trading_signal, calls, page, provider_reply, fetch_ended,
                   requests_sent, mockVars, nlpVars, mapVars, priceVars, clientVars>>

\* pages/IRCTC.py calls get_news_and_analysis_from_backend(query) and the POST does
\* not reach a backend that answers /news_analysis: the connection fails, or
\* whatever listens at BACKEND_URL answers with an error status
PageBackendUnreachable ==
    /\ pc = "idle"
    /\ \E q \in TrackedSymbols, k \in {"connection_error", "http_error_status"} :
          /\ query' = q
          /\ client_outcome' = BackendOutcome(k, NoBackendBody)
          /\ client_result' =
                IRCTC_get_news_and_analysis_from_backend(q, BackendOutcome(k, NoBackendBody))
    /\ pc' = "page_done"
    /\ UNCHANGED <<rng, NEWS_API_KEY, raw_articles, loop_i, processed_news,
                   latest_trading_signal, response, calls, page, provider_reply,
                   fetch_ended, requests_sent, mockVars, nlpVars, mapVars, priceVars>>

\* the backend has answered the page's POST /news_analysis and
\* get_news_and_analysis_from_backend returns
PageReceives ==
    /\ pc = "responded"
    /\ page = "backend"
    /\ \E arrival \in {"intact", "undecodable_body", "undecodable_body_legacy"} :
          /\ client_outcome' = SeenByClient(response, arrival)
          /\ client_result' =
                IRCTC_get_news_and_analysis_from_backend(query, SeenByClient(response, arrival))
    /\ pc' = "page_done"
    /\ UNCHANGED <<rng, NEWS_API_KEY, query, raw_articles, loop_i, processed_news,
                   latest_trading_signal, response, calls, page, provider_reply,
                   fetch_ended, requests_sent, mockVars, nlpVars, mapVars, priceVars>>

\* one request, handled from any of the generator states 0..MaxSeed
NextPipeline ==
    \/ FetchNews
    \/ ReturnNoArticles
    \/ ProcessArticle
    \/ ReturnProcessed
    \/ PageBackendUnreachable
    \/ PageReceives

SpecPipeline == InitPipeline /\ [][NextPipeline]_vars

(* ---- price fetches ---- *)
InitPrice ==
    /\ pc = "idle"
    /\ rng \in 0..MaxSeed
    /\ NEWS_API_KEY = FALSE
    /\ Blank

\* a call of get_live_stock_price_yf; on the backend it is made by GET /live_price,
\* which answers 200 with the price and 500 when the call raises
LivePrice ==
    /\ pc = "idle"
    /\ \E p \in Pages, symbol \in PriceSymbols, exch \in Exchanges,
          reply \in InfoReplies, now \in 0..MaxNow :
          LET r == get_live_stock_price_yf(p, symbol, exch, reply, now, rng)
          IN  /\ price_page' = p
              /\ price_symbol' = symbol
              /\ exchange' = exch
              /\ yf_request' = [ticker |-> YfSymbol(p, symbol, exch),
                                period |-> "", interval |-> ""]
              /\ yf_reply' = reply
              /\ live_price' = [kind |-> r.kind, value |-> r.value]
              /\ rng' = r.x
              /\ http_status' = IF p # "backend" THEN 0
                                ELSE IF r.kind = "return" THEN 200 ELSE 500
    /\ pc' = "price_done"
    /\ UNCHANGED <<hist_timeframe, ohlc, NEWS_API_KEY, mockVars, nlpVars, mapVars,
                   query, raw_articles, loop_i, processed_news, latest_trading_signal,
                   response, calls, page, provider_reply, fetch_ended, requests_sent,
                   clientVars>>

\* a call of get_historical_ohlc_yf; on the backend it is made by POST
\* /historical_data, which answers 404 for an empty frame and 200 otherwise
HistoricalData ==
    /\ pc = "idle"
    /\ \E p \in Pages, symbol \in {SBI_CURRENT_STOCK, <<"I","R","C","T","C">>},
          exch \in {NSE, BSE}, tf \in Timeframes, reply \in HistoryReplies,
          now \in 0..MaxNow :
          LET r == get_historical_ohlc_yf(p, symbol, tf, exch, reply, now, rng)
          IN  /\ price_page' = p
              /\ price_symbol' = symbol
              /\ exchange' = exch
              /\ hist_timeframe' = tf
              /\ yf_request' = [ticker |-> YfSymbol(p, symbol, exch),
                                period |-> HistPeriod(tf), interval |-> HistInterval(tf)]
              /\ yf_reply' = reply
              /\ ohlc' = [kind |-> r.kind, rows |-> r.rows]
              /\ rng' = r.x
              /\ http_status' = IF p # "backend" THEN 0 ELSE HistoricalStatus(r.rows)
    /\ pc' = "hist_done"
    /\ UNCHANGED <<live_price, NEWS_API_KEY, mockVars, nlpVars, mapVars,
                   query, raw_articles, loop_i, processed_news, latest_trading_signal,
                   response, calls, page, provider_reply, fetch_ended, requests_sent,
                   clientVars>>

\* one call, made from any of the generator states 0..MaxSeed
NextPrice == LivePrice \/ HistoricalData

SpecPrice == InitPrice /\ [][NextPrice]_vars

(***************************************************************************)
(* Claims about generate_mock_stock_data_local (checked under SpecMock)    *)
(***************************************************************************)

\* C1: for a timeframe of the table and no override, the series has the table's
\* default count (60, 8, 5, 20, 250), consecutive timestamps are exactly one table
\* interval apart (5 min, 1 h, 1 day, 1 day, 1 day; hence strictly increasing),
\* and the last timestamp is the `now` of the call.
C1_DefaultSeries ==
    LET count == [tf \in KnownTimeframes |->
                    CASE tf = "5m" -> 60 [] tf = "1d" -> 8 [] tf = "1w" -> 5
                      [] tf = "1m" -> 20 [] tf = "1y" -> 250]
        step  == [tf \in KnownTimeframes |->
                    CASE tf = "5m" -> 300 [] tf = "1d" -> 3600 [] OTHER -> 86400]
    IN  (pc = "mock_done" /\ timeframe \in KnownTimeframes
                          /\ num_points_override = NoOverride)
        => /\ Len(series) = count[timeframe]
           /\ \A k \in 1..(Len(series) - 1) :
                 /\ series[k + 1].Date - series[k].Date = step[timeframe]
                 /\ series[k].Date < series[k + 1].Date
           /\ series[Len(series)].Date = current_date

C1_Witness ==
    /\ pc = "mock_done"
    /\ timeframe = "1y"
    /\ num_points_override = NoOverride
    /\ current_date = 1
    /\ Len(series) = 250
    /\ series[250].Date = 1
    /\ series[1].Date = 1 - 249 * 86400

\* C2: every row of every generated series (any timeframe, any override), after
\* rounding to 2 decimals, has Low <= min(Open, Close) <= max(Open, Close) <= High
\* and a whole-number Volume with 100000 <= Volume <= 5000000.
C2_RowInvariant ==
    pc = "mock_done" =>
        \A k \in 1..Len(series) :
            LET row == series[k]
            IN  /\ row.Low <= Min(row.Open, row.Close)
                /\ Min(row.Open, row.Close) <= Max(row.Open, row.Close)
                /\ Max(row.Open, row.Close) <= row.High
                /\ row.Volume \in Nat
                /\ 100000 <= row.Volume
                /\ row.Volume <= 5000000

\* a series with a row whose High was rounded onto max(Open, Close), a row whose
\* range is strictly wider than its body, and a row that fell
C2_Witness ==
    /\ pc = "mock_done"
    /\ \E k \in 1..Len(series) : series[k].High = Max(series[k].Open, series[k].Close)
    /\ \E k \in 1..Len(series) :
          /\ series[k].Low < Min(series[k].Open, series[k].Close)
          /\ series[k].High > Max(series[k].Open, series[k].Close)
    /\ \E k \in 1..Len(series) : series[k].Close < series[k].Open

\* C3 (as claimed): with an explicit override n, n = 0 included, the series has
\* exactly n rows.  Violated: an override of 0 is falsy and the default count is used.
C3_OverrideLength ==
    (pc = "mock_done" /\ num_points_override # NoOverride)
        => Len(series) = num_points_override[1]

\* C4 (as claimed): a timeframe outside the table behaves as "1y": 250 rows one
\* day apart without an override, and strictly increasing timestamps with one.
\* Violated: the if/elif chain has no else, so interval and count stay 0.
C4_UnknownAsOneYear ==
    (pc = "mock_done" /\ timeframe \notin KnownTimeframes)
        => /\ num_points_override = NoOverride =>
                /\ Len(series) = 250
                /\ \A k \in 1..(Len(series) - 1) :
                      series[k + 1].Date - series[k].Date = 86400
           /\ num_points_override # NoOverride =>
                \A k \in 1..(Len(series) - 1) : series[k].Date < series[k + 1].Date

(***************************************************************************)
(* Claims about analyze_sentiment and perform_ner (checked under SpecNlp)  *)
(***************************************************************************)
Str_profit == <<"p","r","o","f","i","t">>
Str_loss == <<"l","o","s","s">>
Str_plans == <<"p","l","a","n","s">>
Str_SBI == <<"S","B","I">>
Str_Tata_Motors == <<"T","a","t","a"," ","M","o","t","o","r","s">>
Str_Profit_after_profit == <<"P","r","o","f","i","t"," ","a","f","t","e","r"," ","p","r","o","f","i","t">>
Str_SBI_reports_record_profit == <<"S","B","I"," ","r","e","p","o","r","t","s"," ","r","e","c","o","r","d"," ","p","r","o","f","i","t">>
Str_Random_unrelated_headline == <<"R","a","n","d","o","m"," ","u","n","r","e","l","a","t","e","d"," ","h","e","a","d","l","i","n","e">>

\* the names under which the alias lists cover the five tracked equities
TrackedNames ==
    { <<"i","n","d","i","a","n"," ","r","a","i","l","w","a","y","s"," ","c","a","t","e","r","i","n","g">>,
      <<"s","t","a","t","e"," ","b","a","n","k"," ","o","f"," ","i","n","d","i","a">>,
      <<"t","a","t","a"," ","m","o","t","o","r","s">>,
      <<"b","h","a","r","a","t"," ","e","l","e","c","t","r","o","n","i","c","s">>,
      <<"i","n","d","i","g","o"," ","a","i","r","l","i","n","e","s">> }

SentimentCallDone == pc = "nlp_done" /\ sentiment_result # ""
NerCallDone == pc = "nlp_done" /\ ner_result # <<>>

\* the positive / negative list of the copy that was called
CalledPositive == IF nlp_impl = "backend" THEN positive_keywords ELSE SBI_positive_keywords
CalledNegative == IF nlp_impl = "backend" THEN negative_keywords ELSE SBI_negative_keywords

\* how many keywords of the list occur in the lower-cased text (each at most once)
PresentCount(keywords, text) ==
    Cardinality({ k \in 1..Len(keywords) : Contains(keywords[k], Lower(text)) })

\* C5: analyze_sentiment returns the sign of (number of positive-list keywords
\* present in the lower-cased text) - (number of negative-list keywords present):
\* positive above 0, negative below 0, neutral at 0; a keyword counts once however
\* often it repeats, and neutral-list keywords play no part.
C5_SignOfScore ==
    SentimentCallDone =>
        LET score == PresentCount(CalledPositive, nlp_text)
                     - PresentCount(CalledNegative, nlp_text)
        IN  sentiment_result = IF score > 0 THEN "positive"
                               ELSE IF score < 0 THEN "negative"
                               ELSE "neutral"

\* "Profit after profit" + "loss": profit occurs twice and counts once, so the
\* score is 1 - 1 = 0
C5_Witness ==
    /\ SentimentCallDone
    /\ nlp_text = Str_Profit_after_profit \o Str_loss
    /\ sentiment_result = "neutral"

\* C7 (as claimed): 'profit' and no negative keyword gives positive; 'loss' and no
\* positive keyword gives negative; neither 'profit' nor 'loss' gives neutral.
\* Violated: "loan growth" has neither word and is positive (keyword "growth").
C7_AsClaimed ==
    SentimentCallDone =>
        LET low == Lower(nlp_text)
        IN  /\ (Contains(Str_profit, low) /\ PresentCount(CalledNegative, nlp_text) = 0)
                  => sentiment_result = "positive"
            /\ (Contains(Str_loss, low) /\ PresentCount(CalledPositive, nlp_text) = 0)
                  => sentiment_result = "negative"
            /\ (~Contains(Str_profit, low) /\ ~Contains(Str_loss, low))
                  => sentiment_result = "neutral"

\* C7 (amended): 'profit' and no negative keyword gives positive; 'loss' and no
\* positive keyword gives negative; a text in which no positive-list and no
\* negative-list keyword occurs gives neutral.
C7_Amended ==
    SentimentCallDone =>
        LET low == Lower(nlp_text)
        IN  /\ (Contains(Str_profit, low) /\ PresentCount(CalledNegative, nlp_text) = 0)
                  => sentiment_result = "positive"
            /\ (Contains(Str_loss, low) /\ PresentCount(CalledPositive, nlp_text) = 0)
                  => sentiment_result = "negative"
            /\ (PresentCount(CalledPositive, nlp_text) = 0
                 /\ PresentCount(CalledNegative, nlp_text) = 0)
                  => sentiment_result = "neutral"

\* 'loss' with a neutral-list keyword and no positive keyword: negative
C7_Witness ==
    /\ SentimentCallDone
    /\ nlp_text = Str_loss \o Str_plans
    /\ sentiment_result = "negative"

\* C9: perform_ner returns the target symbol exactly when the lower-cased text
\* contains the lower-cased symbol or an entry of the alias list, and "N/A"
\* otherwise, never a third value; the alias list holds a name of each of the five
\* tracked equities, so a text with one of these names is tagged with the target
\* whatever the target is; ("SBI reports record profit", "SBI") gives "SBI" and
\* ("Random unrelated headline", "SBI") gives "N/A".
C9_NerResult ==
    NerCallDone =>
        LET low == Lower(nlp_text)
            aliases == IF nlp_impl = "backend" THEN ner_aliases ELSE SBI_ner_aliases
            hit == \/ Contains(Lower(nlp_symbol), low)
                   \/ \E k \in 1..Len(aliases) : Contains(aliases[k], low)
        IN  /\ ner_result \in {nlp_symbol, NA}
            /\ hit => ner_result = nlp_symbol
            /\ ~hit => ner_result = NA
            /\ (\E name \in TrackedNames : Contains(name, low)) => ner_result = nlp_symbol
            /\ (nlp_text = Str_SBI_reports_record_profit /\ nlp_symbol = Str_SBI)
                  => ner_result = Str_SBI
            /\ (nlp_text = Str_Random_unrelated_headline /\ nlp_symbol = Str_SBI)
                  => ner_result = NA

\* a text naming only Tata Motors, tagged with the target SBI
C9_Witness ==
    /\ NerCallDone
    /\ nlp_impl = "backend"
    /\ nlp_text = Str_Tata_Motors
    /\ nlp_symbol = Str_SBI
    /\ ner_result = Str_SBI

(***************************************************************************)
(* Claims about map_news_to_action (checked under SpecMap)                 *)
(***************************************************************************)

\* C8: positive gives BUY with confidence in [0.70, 0.90], stop_loss in
\* [2.5, 3.5], take_profit in [5.0, 7.0]; negative gives SELL/SHORT with
\* [0.70, 0.90], [3.0, 4.0], [6.0, 8.0]; neutral and every other label give HOLD
\* with [0.40, 0.60], [1.0, 2.0], [2.0, 4.0]; the three numbers are multiples of
\* 0.01 (numbers in thousandths).
C8_ActionRanges ==
    pc = "map_done" =>
        LET a == action_data
            within(act, c1, c2, s1, s2, t1, t2) ==
                /\ a.recommended_action = act
                /\ c1 <= a.confidence /\ a.confidence <= c2
                /\ s1 <= a.stop_loss /\ a.stop_loss <= s2
                /\ t1 <= a.take_profit /\ a.take_profit <= t2
        IN  /\ map_sentiment = "positive"
                  => within("BUY", 700, 900, 2500, 3500, 5000, 7000)
            /\ map_sentiment = "negative"
                  => within("SELL/SHORT", 700, 900, 3000, 4000, 6000, 8000)
            /\ map_sentiment \notin {"positive", "negative"}
                  => within("HOLD", 400, 600, 1000, 2000, 2000, 4000)
            /\ a.confidence % 10 = 0
            /\ a.stop_loss % 10 = 0
            /\ a.take_profit % 10 = 0

\* a negative label whose stop_loss was rounded up onto the upper end 4.0
C8_Witness ==
    /\ pc = "map_done"
    /\ map_sentiment = "negative"
    /\ action_data.recommended_action = "SELL/SHORT"
    /\ action_data.stop_loss = 4000

(***************************************************************************)
(* Claims about POST /news_analysis (checked under SpecPipeline)           *)
(***************************************************************************)

\* C10: when the fetcher returns an empty list, the endpoint answers with an empty
\* annotated list and exactly the neutral default signal (ticker = the input
\* symbol, sentiment N/A, event N/A, confidence 0.00, HOLD, stop_loss 0.00,
\* take_profit 0.00), and perform_ner, analyze_sentiment and map_news_to_action
\* were not called.
C10_EmptyListDefault ==
    (pc = "responded" /\ raw_articles.kind = "list" /\ raw_articles.items = <<>>)
        => /\ response.status = 200
           /\ response.news = <<>>
           /\ response.trading_signal.ticker = query
           /\ response.trading_signal.sentiment = "N/A"
           /\ response.trading_signal.event = <<"N/A">>
           /\ response.trading_signal.confidence = 0
           /\ response.trading_signal.recommended_action = "HOLD"
           /\ response.trading_signal.stop_loss = 0
           /\ response.trading_signal.take_profit = 0
           /\ DOMAIN response.trading_signal =
                 {"ticker", "sentiment", "event", "confidence", "recommended_action",
                  "stop_loss", "take_profit"}
           /\ calls.perform_ner = 0
           /\ calls.analyze_sentiment = 0
           /\ calls.map_news_to_action = 0

\* the provider answers status ok with no article, for the symbol SBI
C10_Witness ==
    /\ pc = "responded"
    /\ NEWS_API_KEY
    /\ query = Str_SBI
    /\ raw_articles = [kind |-> "list", items |-> <<>>]
    /\ response.status = 200
    /\ response.trading_signal.ticker = Str_SBI

\* the fetcher returned a non-empty list and the loop is running or has ended
LoopStarted ==
    /\ pc \in {"fetched", "responded"}
    /\ raw_articles.kind = "list"
    /\ raw_articles.items # <<>>

\* the annotated article carries the six fields of the fetched article
SameArticle(annotated, fetched) ==
    /\ annotated.source = fetched.source
    /\ annotated.title = fetched.title
    /\ annotated.content = fetched.content
    /\ annotated.url = fetched.url
    /\ annotated.publishedAt = fetched.publishedAt
    /\ annotated.event = fetched.event

\* C11: for a non-empty fetched list, at every step of the loop the annotated list
\* is the image of a prefix of the fetched list (entry i carries source, title,
\* content, url, publishedAt and event of fetched article i), and the answer's
\* list has the length of the fetched list.
C11_OrderPreserved ==
    LoopStarted =>
        /\ Len(processed_news) = loop_i
        /\ loop_i <= Len(raw_articles.items)
        /\ \A k \in 1..Len(processed_news) :
               SameArticle(processed_news[k], raw_articles.items[k])
        /\ pc = "responded" =>
               /\ response.status = 200
               /\ Len(response.news) = Len(raw_articles.items)
               /\ \A k \in 1..Len(response.news) :
                      SameArticle(response.news[k], raw_articles.items[k])

\* two different genuine articles were annotated and returned
C11_Witness ==
    /\ pc = "responded"
    /\ page = "backend"
    /\ Len(raw_articles.items) = 2
    /\ raw_articles.items[1].title # raw_articles.items[2].title
    /\ Len(response.news) = 2
    /\ response.news[2].title = raw_articles.items[2].title

\* perform_ner's result for fetched article 0, by the copy the page runs
FirstTicker ==
    IF page = "SBI"
    THEN SBI_perform_ner(FullText(raw_articles.items[1]), query)
    ELSE perform_ner(FullText(raw_articles.items[1]), query)

SignalIsOfFirst(signal) ==
    /\ signal.ticker = FirstTicker
    /\ signal.sentiment = processed_news[1].sentiment
    /\ signal.event = processed_news[1].event
    /\ signal.confidence = processed_news[1].confidence
    /\ signal.recommended_action = processed_news[1].recommended_action

\* C12: for a non-empty fetched list the signal is built from article 0 only: its
\* ticker is perform_ner's result for article 0 and its sentiment, event,
\* confidence and recommended_action are those of annotated article 0; once
\* article 0 is processed, no later step changes the signal.
C12_SignalFromFirst ==
    /\ [](LoopStarted /\ loop_i >= 1 =>
             /\ SignalIsOfFirst(latest_trading_signal)
             /\ pc = "responded" => SignalIsOfFirst(response.trading_signal))
    /\ [][LoopStarted /\ loop_i >= 1 => latest_trading_signal' = latest_trading_signal]_vars

\* a second article with another sentiment was processed after the first
C12_Witness ==
    /\ pc = "responded"
    /\ Len(raw_articles.items) = 2
    /\ loop_i = 2
    /\ processed_news[1].sentiment # processed_news[2].sentiment
    /\ response.trading_signal.sentiment = processed_news[1].sentiment
    /\ response.trading_signal.ticker = Str_SBI

(***************************************************************************)
(* Claims about get_financial_news_api (checked under SpecPipeline, whose  *)
(* FetchNews step is one call of it)                                       *)
(***************************************************************************)
FetchDone == pc \in {"fetched", "responded"}

\* the call returned exactly one article with source 'Mock News'
OneMockArticle ==
    /\ fetch_ended = "return"
    /\ raw_articles.kind = "list"
    /\ Len(raw_articles.items) = 1
    /\ raw_articles.items[1].source = <<"Mock News">>

\* the text the call was given as its query
QueryText == IF page = "SBI" THEN SBI_NewsQuery ELSE query \o StockSuffix

\* C14: with no credential configured the fetcher returns exactly one article,
\* with source 'Mock News', for every query, and issues no request to the provider.
C14_NoKeyMock ==
    (FetchDone /\ ~NEWS_API_KEY) => (OneMockArticle /\ requests_sent = 0)

C14_Witness ==
    /\ pc = "fetched"
    /\ ~NEWS_API_KEY
    /\ page = "backend"
    /\ requests_sent = 0
    /\ raw_articles.items[1].title =
          MockTitlePrefix \o <<"I","R","C","T","C">> \o StockSuffix \o KeyMissingSuffix

\* the provider's rate-limit / quota messages
RateLimitMessages == {Msg_free_plan, Msg_too_many_requests}

\* the failure the provider's reply is, in the claim's terms
ReplyIsRateLimit ==
    /\ provider_reply.kind \in {"json", "http_error_status"}
    /\ provider_reply.status = <<"error">>
    /\ provider_reply.message \in RateLimitMessages
ReplyIsTimeout == provider_reply.kind = "timeout"
ReplyIsTransportFailure ==
    \/ provider_reply.kind = "transport_error"
    \/ provider_reply.kind = "http_error_status" /\ provider_reply.message \notin RateLimitMessages

TitleNames(suffix) == raw_articles.items[1].title = MockTitlePrefix \o QueryText \o suffix

\* C15: with a credential configured, a rate-limit/quota error (error body of a 2xx
\* response or HTTP error status), a timeout and any other transport failure each
\* give exactly one 'Mock News' article whose title names that failure
\* ('Rate Limit', 'Timeout', 'Request Failed'); the fetcher never raises.
C15_FailuresMasked ==
    (FetchDone /\ NEWS_API_KEY) =>
        /\ ReplyIsRateLimit => (OneMockArticle /\ TitleNames(RateLimitSuffix))
        /\ ReplyIsTimeout => (OneMockArticle /\ TitleNames(TimeoutSuffix))
        /\ ReplyIsTransportFailure => (OneMockArticle /\ TitleNames(RequestFailedSuffix))

\* a well-formed error answer whose message is not a rate-limit message
ReplyIsOtherError ==
    /\ provider_reply.kind = "json"
    /\ provider_reply.status = <<"error">>
    /\ provider_reply.message # Absent
    /\ provider_reply.message \notin RateLimitMessages

FetchRaised == fetch_ended \in {"HTTPException", "exception"}

\* C16: a well-formed error answer that is not the rate-limit message makes the
\* fetcher raise (no mock, no empty data), it is the only provider outcome for
\* which the fetcher raises, and /news_analysis answers it with HTTP 500.
C16_OnlyOtherErrorRaises ==
    (FetchDone /\ NEWS_API_KEY) =>
        /\ ReplyIsOtherError => FetchRaised
        /\ FetchRaised => ReplyIsOtherError
        /\ (ReplyIsOtherError /\ page = "backend") =>
               (pc = "responded" /\ response.status = 500)

\* a decoded 2xx body of no known shape
ReplyIsMalformed ==
    /\ provider_reply.kind = "json"
    /\ \/ provider_reply.status \notin {<<"ok">>, <<"error">>}
       \/ provider_reply.status = <<"ok">> /\ ~provider_reply.has_articles
       \/ provider_reply.status = <<"error">> /\ provider_reply.message = Absent

\* C17: a 2xx body of no known shape (status absent, status neither 'ok' nor
\* 'error', articles or message absent) ends the news request in a hard failure,
\* never in a successful answer with an empty list and the default signal.
C17_MalformedFails ==
    (pc = "responded" /\ NEWS_API_KEY /\ ReplyIsMalformed) => response.status = 500

\* C18: on status 'ok' the fetcher returns one canonical article per provider
\* article, in the provider's order, each with exactly the keys source, title,
\* content, url, publishedAt, event, with event 'General News'; no genuine article
\* gets the source 'Mock News' or the event 'Mock Event' from the fetcher.
C18_CanonicalArticles ==
    (FetchDone /\ NEWS_API_KEY /\ provider_reply.kind = "json"
       /\ provider_reply.status = <<"ok">> /\ provider_reply.has_articles) =>
        /\ fetch_ended = "return"
        /\ raw_articles.kind = "list"
        /\ Len(raw_articles.items) = Len(provider_reply.articles)
        /\ \A k \in 1..Len(raw_articles.items) :
              LET got == raw_articles.items[k]
                  sent == provider_reply.articles[k]
              IN  /\ DOMAIN got = {"source", "title", "content", "url", "publishedAt", "event"}
                  /\ got.event = <<"General News">>
                  /\ got.event # <<"Mock Event">>
                  /\ got.title = sent.title
                  /\ got.url = sent.url
                  /\ got.publishedAt = sent.publishedAt
                  /\ got.source = IF sent.source_name = Absent
                                  THEN <<"U","n","k","n","o","w","n">> ELSE sent.source_name
                  /\ got.source # <<"Mock News">>
                  /\ got.content = IF sent.description # Absent THEN sent.description
                                   ELSE sent.content

\* two provider articles came back in the provider's order, one without a source name
C18_Witness ==
    /\ pc = "fetched"
    /\ NEWS_API_KEY
    /\ fetch_ended = "return"
    /\ Len(provider_reply.articles) = 2
    /\ provider_reply.articles[1].source_name = Absent
    /\ provider_reply.articles[2].source_name = <<"Reuters">>
    /\ raw_articles.items[1].source = <<"U","n","k","n","o","w","n">>
    /\ raw_articles.items[2].source = <<"Reuters">>

(***************************************************************************)
(* Claims about the price fetches (checked under SpecPrice)                *)
(***************************************************************************)
Str_IRCTC == << "I","R","C","T","C" >>
Str_TATAMOTORS == << "T","A","T","A","M","O","T","O","R","S" >>
Str_SBIN == << "S","B","I","N" >>

PriceCallDone == pc \in {"price_done", "hist_done"}

\* the logical symbol after the per-equity override of the rule (in any letter case)
Overridden(symbol) == IF Upper(symbol) = Str_SBI THEN Str_SBIN ELSE symbol

\* C13: the resolver maps (IRCTC, NSE) to IRCTC.NS, (SBI, NSE) to SBIN.NS,
\* (SBI, BSE) to SBIN.BO and (TATAMOTORS, NSE) to TATAMOTORS.NS; in general it
\* applies the override if there is one, else appends .NS for NSE and .BO for BSE,
\* and returns the symbol unchanged for any other exchange; for the backend's
\* resolver as well as the SBI page's.
C13_ResolverRule ==
    PriceCallDone =>
        /\ (price_symbol = Str_IRCTC /\ exchange = NSE)
              => yf_request.ticker = Str_IRCTC \o << ".","N","S" >>
        /\ (price_symbol = Str_SBI /\ exchange = NSE)
              => yf_request.ticker = Str_SBIN \o << ".","N","S" >>
        /\ (price_symbol = Str_SBI /\ exchange = BSE)
              => yf_request.ticker = Str_SBIN \o << ".","B","O" >>
        /\ (price_symbol = Str_TATAMOTORS /\ exchange = NSE)
              => yf_request.ticker = Str_TATAMOTORS \o << ".","N","S" >>
        /\ exchange = NSE => yf_request.ticker = Overridden(price_symbol) \o << ".","N","S" >>
        /\ exchange = BSE => yf_request.ticker = Overridden(price_symbol) \o << ".","B","O" >>
        /\ exchange = << "N","Y","S","E" >> => yf_request.ticker = price_symbol

\* the value is the Close of a one-row '5m' series of the page's generator that
\* leaves the generator in its present state
IsOnePointMockClose(value) ==
    \E x0 \in 0..(RandMod - 1), now \in 0..MaxNow :
        LET run == PageMockRun(price_page, "5m", <<1>>, now, x0)
        IN  /\ Len(run.data) = 1
            /\ run.data[1].Close = value
            /\ run.x = rng

\* C19: for every symbol, exchange and provider outcome get_live_stock_price_yf
\* returns a number and never raises: the provider's regular-market price when
\* there is one, else the Close of a one-point mock series for timeframe '5m'.
C19_LivePriceNeverRaises ==
    pc = "price_done" =>
        /\ live_price.kind = "return"
        /\ live_price.value \in Nat
        /\ price_page = "backend" => http_status = 200
        /\ yf_reply.kind = "price" => live_price.value = yf_reply.price
        /\ yf_reply.kind # "price" => IsOnePointMockClose(live_price.value)

\* the provider call raised and a mock close was returned by GET /live_price
C19_Witness ==
    /\ pc = "price_done"
    /\ price_page = "backend"
    /\ yf_reply.kind = "raises"
    /\ live_price.kind = "return"
    /\ live_price.value >= 960000
    /\ http_status = 200

\* the length of a full mock series for a timeframe token, unknown tokens as '1y'
FullMockLength(tf) ==
    CASE tf = "5m" -> 60
      [] tf = "1d" -> 8
      [] tf = "1w" -> 5
      [] tf = "1m" -> 20
      [] OTHER     -> 250

\* C20: for every timeframe token (in the table or not) and every provider outcome
\* the historical price operation yields a non-empty series: a full mock series
\* for that timeframe when the provider result is empty or fails, and
\* /historical_data never answers 404 or 500 for a data-availability reason.
C20_HistoryNeverEmpty ==
    pc = "hist_done" =>
        /\ ohlc.kind = "return"
        /\ ohlc.rows # <<>>
        /\ yf_reply.kind # "data" => Len(ohlc.rows) = FullMockLength(hist_timeframe)
        /\ price_page = "backend" => http_status = 200

(***************************************************************************)
(* Claims comparing the copies of the classifiers (checked under SpecNlp)  *)
(***************************************************************************)

\* C21: for every text and target symbol the backend's perform_ner and
\* analyze_sentiment return what the SBI page's perform_ner and analyze_sentiment
\* return, so an article gets the same ticker tag and sentiment on every page.
C21_SameOnEveryPage ==
    /\ SentimentCallDone =>
          sentiment_result = IF nlp_impl = "backend"
                             THEN SBI_analyze_sentiment(nlp_text)
                             ELSE analyze_sentiment(nlp_text)
    /\ NerCallDone =>
          ner_result = IF nlp_impl = "backend"
                       THEN SBI_perform_ner(nlp_text, nlp_symbol)
                       ELSE perform_ner(nlp_text, nlp_symbol)

\* the keyword list with every keyword case-folded
Folded(keywords) == [k \in 1..Len(keywords) |-> Lower(keywords[k])]

\* C22: in the SBI page's analyze_sentiment every banking keyword counts whatever
\* its letter case: 'loan growth', 'deposit growth', 'asset quality improves',
\* 'NPA reduction', 'credit expansion' count +1 and 'NPA increase', 'fraud',
\* 'scam', 'regulatory fine' count -1; a text whose only keyword is 'NPA increase'
\* is negative.
C22_BankingKeywordsCount ==
    (SentimentCallDone /\ nlp_impl = "SBI") =>
        LET score == PresentCount(Folded(SBI_positive_keywords), nlp_text)
                     - PresentCount(Folded(SBI_negative_keywords), nlp_text)
        IN  sentiment_result = IF score > 0 THEN "positive"
                               ELSE IF score < 0 THEN "negative"
                               ELSE "neutral"

(***************************************************************************)
(* Further claims about map_news_to_action (checked under SpecMap)         *)
(***************************************************************************)
MapCallDone == pc = "map_done"

\* C25 (as claimed): for every label and every draw the rounded stop_loss is
\* strictly smaller than the rounded take_profit, the HOLD case included.
\* Violated: a HOLD stop_loss drawn at 1.996 and a take_profit drawn at 2.0 both
\* round to 2.00.
C25_AsClaimed ==
    MapCallDone => action_data.stop_loss < action_data.take_profit

\* C25 (amended): stop_loss is never larger than take_profit, and it is strictly
\* smaller for BUY and for SELL/SHORT; for HOLD the two can be equal, at 2.00 only.
C25_Amended ==
    MapCallDone =>
        /\ action_data.stop_loss <= action_data.take_profit
        /\ action_data.recommended_action \in {"BUY", "SELL/SHORT"}
              => action_data.stop_loss < action_data.take_profit
        /\ action_data.stop_loss = action_data.take_profit
              => (action_data.recommended_action = "HOLD" /\ action_data.stop_loss = 2 * Milli)

\* HOLD with stop_loss and take_profit both 2.00
C25_Witness ==
    /\ MapCallDone
    /\ action_data.recommended_action = "HOLD"
    /\ action_data.stop_loss = 2000
    /\ action_data.take_profit = 2000

\* the value the claim expects for a provider field: the fallback when the field
\* is absent or null
OrFallback(value, fallback) == IF value \in {Absent, Null} THEN fallback ELSE value

\* C28: every genuine article returned by the fetcher has a text (non-null) value
\* in source, title, content, url and publishedAt: an absent or null provider
\* field is replaced by 'Unknown', 'No Title', the provider's content field and
\* then 'No content available', '#', 'N/A'.
C28_NoNullFields ==
    (FetchDone /\ NEWS_API_KEY /\ provider_reply.kind = "json"
       /\ provider_reply.status = <<"ok">> /\ provider_reply.has_articles
       /\ fetch_ended = "return") =>
        \A k \in 1..Len(raw_articles.items) :
            LET got  == raw_articles.items[k]
                sent == provider_reply.articles[k]
            IN  /\ got.source = OrFallback(sent.source_name, <<"U","n","k","n","o","w","n">>)
                /\ got.title = OrFallback(sent.title, <<"N","o"," ","T","i","t","l","e">>)
                /\ got.content = OrFallback(sent.description,
                                   OrFallback(sent.content, NoContent))
                /\ got.url = OrFallback(sent.url, <<"#">>)
                /\ got.publishedAt = OrFallback(sent.publishedAt, <<"N/A">>)
                /\ Null \notin {got.source, got.title, got.content, got.url, got.publishedAt}

(***************************************************************************)
(* Further claims about the news pipeline (checked under SpecPipeline)     *)
(***************************************************************************)
ArticleKeys == {"source", "title", "content", "url", "publishedAt", "event"}

\* C23: the pipeline does not touch its input: while and after it processes an
\* article list every fetched article keeps its six fields and their values (no
\* sentiment or action key appears), and no module-level state other than the
\* random generator is written.
C23_InputUnchanged ==
    /\ []((FetchDone /\ raw_articles.kind = "list") =>
            \A k \in 1..Len(raw_articles.items) :
                DOMAIN raw_articles.items[k] = ArticleKeys)
    /\ [][pc = "fetched" =>
            /\ raw_articles' = raw_articles
            /\ NEWS_API_KEY' = NEWS_API_KEY
            /\ query' = query]_vars

\* two articles were annotated and the fetched dicts have no sentiment key
C23_Witness ==
    /\ pc = "responded"
    /\ Len(raw_articles.items) = 2
    /\ Len(response.news) = 2
    /\ response.news[1].sentiment = "positive"
    /\ "sentiment" \notin DOMAIN raw_articles.items[1]
    /\ "sentiment" \notin DOMAIN raw_articles.items[2]

\* action and confidence agree with the sentiment label
Consistent(item) ==
    /\ item.sentiment \in {"positive", "negative", "neutral"}
    /\ item.recommended_action = "BUY" <=> item.sentiment = "positive"
    /\ item.recommended_action = "SELL/SHORT" <=> item.sentiment = "negative"
    /\ item.recommended_action = "HOLD" <=> item.sentiment = "neutral"
    /\ item.recommended_action \in {"BUY", "SELL/SHORT"}
          => (700 <= item.confidence /\ item.confidence <= 900)
    /\ item.recommended_action = "HOLD"
          => (400 <= item.confidence /\ item.confidence <= 600)

\* C24 (as claimed): in every state of the loop every annotated article produced
\* so far is consistent (action fits the sentiment, sentiment is one of the three
\* labels, confidence in the action's range), and so is the trading signal
\* whenever at least one article was fetched.
\* Violated: before article 0 is processed the signal is still the default, with
\* sentiment 'N/A' and confidence 0.
C24_AsClaimed ==
    LoopStarted =>
        /\ \A k \in 1..Len(processed_news) : Consistent(processed_news[k])
        /\ Consistent(latest_trading_signal)

\* C24 (amended): the annotated articles are consistent in every state of the
\* loop; the signal is consistent once article 0 is processed, and so is the
\* returned signal whenever at least one article was fetched.
C24_Amended ==
    LoopStarted =>
        /\ \A k \in 1..Len(processed_news) : Consistent(processed_news[k])
        /\ loop_i >= 1 => Consistent(latest_trading_signal)
        /\ pc = "responded" =>
              /\ Consistent(response.trading_signal)
              /\ \A k \in 1..Len(response.news) : Consistent(response.news[k])

\* a BUY article and a SELL/SHORT article were returned
C24_Witness ==
    /\ pc = "responded"
    /\ Len(response.news) = 2
    /\ response.news[1].recommended_action = "BUY"
    /\ response.news[2].recommended_action = "SELL/SHORT"
    /\ response.trading_signal.recommended_action = "BUY"

\* C26: with no credential configured, /news_analysis returns for each tracked
\* symbol exactly one annotated article (source 'Mock News', event 'Mock Event',
\* sentiment 'neutral', action 'HOLD') and a signal with ticker = the input symbol,
\* sentiment 'neutral', event 'Mock Event', 'HOLD', confidence in [0.40, 0.60],
\* stop_loss in [1.0, 2.0], take_profit in [2.0, 4.0]; never the all-zero default,
\* never BUY or SELL/SHORT.
C26_NoKeySignal ==
    (pc = "responded" /\ page = "backend" /\ ~NEWS_API_KEY) =>
        /\ response.status = 200
        /\ Len(response.news) = 1
        /\ response.news[1].source = <<"Mock News">>
        /\ response.news[1].event = <<"Mock Event">>
        /\ response.news[1].sentiment = "neutral"
        /\ response.news[1].recommended_action = "HOLD"
        /\ response.trading_signal.ticker = query
        /\ query \in TrackedSymbols
        /\ response.trading_signal.sentiment = "neutral"
        /\ response.trading_signal.event = <<"Mock Event">>
        /\ response.trading_signal.recommended_action = "HOLD"
        /\ 400 <= response.trading_signal.confidence
        /\ response.trading_signal.confidence <= 600
        /\ 1000 <= response.trading_signal.stop_loss
        /\ response.trading_signal.stop_loss <= 2000
        /\ 2000 <= response.trading_signal.take_profit
        /\ response.trading_signal.take_profit <= 4000
        /\ response.trading_signal # DefaultSignal(query)

\* the answer for TATAMOTORS without a key
C26_Witness ==
    /\ pc = "responded"
    /\ page = "backend"
    /\ ~NEWS_API_KEY
    /\ query = Str_TATAMOTORS
    /\ Len(response.news) = 1
    /\ response.trading_signal.ticker = Str_TATAMOTORS
    /\ response.trading_signal.recommended_action = "HOLD"

\* C27: the IRCTC page's get_news_and_analysis_from_backend never raises; for
\* every backend outcome other than a 2xx JSON answer (connection failure, HTTP
\* 4xx/5xx including the backend's own 500, undecodable body) it returns an empty
\* news list and the neutral default signal (ticker = query, sentiment 'N/A',
\* event 'N/A', confidence 0.0, 'HOLD', stop_loss 0.0, take_profit 0.0), which is
\* field for field the backend's default for zero articles.
C27_ClientNeverRaises ==
    pc = "page_done" =>
        /\ client_result.kind = "return"
        /\ client_outcome.kind # "json" =>
              /\ client_result.body.news = <<>>
              /\ client_result.body.trading_signal.ticker = query
              /\ client_result.body.trading_signal.sentiment = "N/A"
              /\ client_result.body.trading_signal.event = <<"N/A">>
              /\ client_result.body.trading_signal.confidence = 0
              /\ client_result.body.trading_signal.recommended_action = "HOLD"
              /\ client_result.body.trading_signal.stop_loss = 0
              /\ client_result.body.trading_signal.take_profit = 0
              /\ client_result.body.trading_signal = DefaultSignal(query)
        /\ client_outcome.kind = "json" =>
              /\ client_result.body.news = response.news
              /\ client_result.body.trading_signal = response.trading_signal

\* the backend answered its hard-error 500 and the page got the default
C27_Witness ==
    /\ pc = "page_done"
    /\ response.status = 500
    /\ fetch_ended = "HTTPException"
    /\ client_outcome.kind = "http_error_status"
    /\ client_result.kind = "return"
    /\ client_result.body.news = <<>>
    /\ client_result.body.trading_signal.ticker = query

====
